---- MODULE Spec2Model ----
(***************************************************************************)
(* Progress ledger of the language-learning backend: the Progress document *)
(* of src/models/Progress.js (one per user and language), its methods, and *)
(* the admin operation of src/routes/admin.js that edits ledgers in place. *)
(*                                                                         *)
(* The document is the record `progress`; every method of the schema is an *)
(* operator from a document (and the call's arguments) to the document     *)
(* after the call, and an action applies it to the stored document.        *)
(* Timestamps that no method reads (lastPracticed, attemptDate, ...) and   *)
(* the static exercise metadata copied verbatim on creation are left out   *)
(* of the records.                                                         *)
(*                                                                         *)
(* Time is counted in hours of local time from a Sunday, 00:00; the local  *)
(* time zone has no daylight-saving shift.                                 *)
(*                                                                         *)
(* The practice routes of src/routes/listening.js work on `store`, the     *)
(* collection of saved ledgers: a request loads a ledger or makes a new    *)
(* one, updates it in memory with the methods, and saves it; `req` holds   *)
(* what each request has in memory between its load and its save.          *)
(***************************************************************************)
EXTENDS Integers, Sequences, FiniteSets, TLC

VARIABLES
    progress,       \* the Progress document (schema, Progress.js 3-334)
    lessonCatalog,  \* ids of the Lesson documents that exist (admin.js)
    submitted,      \* history: the scores passed to every recording call, per id,
                    \* and the calls and minutes of the lesson attempts
    last,           \* history: the most recent call, its arguments and its result
    nOps,           \* number of operations performed so far
    now,            \* the clock: what new Date() returns, in hours
    store,          \* the Progress collection: the ledgers of one (userId, language)
    req,            \* the practice requests in flight, and how each one ended
    user,           \* the stored document of the user who owns the ledgers
    nFaults         \* number of persistence calls that have failed so far

vars == <<progress, lessonCatalog, submitted, last, nOps, now, store, req, user,
          nFaults>>

----------------------------------------------------------------------------
(* Bounds of the model *)

\* operations per behaviour of the practice (speaking/listening) specification
MaxPracticeOps == 4

\* operations per behaviour of the lesson specification
MaxLessonOps == 3

\* operations per behaviour of the skill specification
MaxSkillOps == 4

\* operations per behaviour of the full specification
MaxOps == 3

\* operations (calls and clock steps) per behaviour of the rollup specification
MaxRollupOps == 4

\* practice submissions per behaviour of the route specification
MaxRouteOps == 2

\* operations per behaviour of the frame specification
MaxFrameOps == 2

\* operations per behaviour of the completion specification
MaxCompletionOps == 3

\* persistence calls (load or save) that fail per behaviour
MaxFaults == 1

\* practice submissions per behaviour of the service specification
MaxServiceOps == 1

ExerciseIds == {"ex1", "ex2"}
LessonIds == {"lessonA", "lessonB"}

\* sub-scores of a speaking attempt (validated 0..100 by the route)
PronunciationScores == {40, 90}
FluencyScores == {80}
AccuracyScores == {70, 100}

\* comprehension scores of a listening attempt (validated 0..100)
ComprehensionScores == {55, 79, 80, 100}

\* scores and minutes of a lesson attempt
LessonScores == {50, 70, 92, 95, 100}
LessonTimes == {5, 10}

\* skills the routes update, XP deltas and accuracy samples
SkillNames == {"listening", "speaking"}
XpDeltas == {100, 150, 260, 500, 2600}
AccuracySamples == {0, 100}

\* arguments of a daily rollup: XP, activity type, minutes
RollupXp == {10, 15}
ActivityTypes == {"lesson", "listening"}
RollupTimes == {0, 2}

\* bodies of the submissions that go through the routes: the exercise, the
\* comprehension score and the three speaking sub-scores
RouteExerciseIds == {"ex1"}
RouteComprehensionScores == {55, 80}
RoutePronunciationScores == {90}
RouteFluencyScores == {80}
RouteAccuracyScores == {70}

\* a score that the validators of the practice routes refuse
InvalidScores == {101}

\* payloads for the reward computation: one score over the whole valid
\* range, the others at the ends and the middle of it
RewardScores == 0..100
RewardSubScores == {0, 50, 100}
RewardRates == {0, 9, 10, 50, 89, 90, 100}

\* the requests that can be in flight at the same time
Requests == {"r1", "r2"}

\* completionRate, timeSpent (seconds) and recordingDuration (seconds) of a
\* practice submission
CompletionRates == {100}
TimeSpentSeconds == {90}
RecordingDurations == {45}

\* hours at which a ledger is constructed (Sunday 00:00, Tuesday 12:00,
\* Saturday 12:00) and hours by which the clock steps (half a day, six days
\* and a half)
StartTimes == {0, 60, 156}
TimeSteps == {12, 156}

----------------------------------------------------------------------------
(* Helpers: JavaScript built-ins used by the methods *)

\* Math.round(n / d) for n >= 0, d > 0: halves round up
Round(n, d) == (2 * n + d) \div (2 * d)

\* Math.floor(n / d) for n >= 0, d > 0
Floor(n, d) == n \div d

\* Math.min
Min(a, b) == IF a < b THEN a ELSE b

\* Array.prototype.reduce((sum, x) => sum + x, 0) over a sequence of numbers
RECURSIVE Sum(_)
Sum(s) == IF s = <<>> THEN 0 ELSE Head(s) + Sum(Tail(s))

\* the values of one field over a sequence of records
Field(s, name) == [i \in 1..Len(s) |-> s[i][name]]

\* Array.prototype.find, given for each element whether the callback accepts
\* it: index of the first accepted element, 0 if none
FindIndex(accepted) ==
    IF \E i \in 1..Len(accepted) : accepted[i]
    THEN CHOOSE i \in 1..Len(accepted) :
            accepted[i] /\ \A j \in 1..(i - 1) : ~accepted[j]
    ELSE 0

\* 1000 * 60 * 60 * 24 milliseconds, in hours
DayHours == 24

\* Date.prototype.getDay(): 0 is Sunday
DayOfWeek(t) == (t \div DayHours) % 7

\* setHours(0, 0, 0, 0): local midnight of the day of t
Midnight(t) == t - (t % DayHours)

RECURSIVE Gcd(_, _)
Gcd(a, b) == IF b = 0 THEN a ELSE Gcd(b, a % b)

\* the number n / d (a JavaScript double that is the quotient of two small
\* integers), kept exactly as a fraction in lowest terms
Quotient(n, d) ==
    LET g == Gcd(n, d) IN IF n = 0 THEN <<0, 1>> ELSE <<n \div g, d \div g>>

----------------------------------------------------------------------------
(* The schema: defaults of a new document, Progress.js 3-334 *)

DefaultStatistics ==
    [ totalLessonsCompleted |-> 0,
      totalTimeSpent |-> 0,
      averageScore |-> <<0, 1>>,
      bestStreak |-> 0,
      wordsLearned |-> 0,
      perfectScores |-> 0,
      speakingExercisesCompleted |-> 0,
      listeningExercisesCompleted |-> 0,
      averageSpeakingScore |-> 0,
      averageListeningScore |-> 0 ]

\* weeklyGoals.weekStartDate default: now.setDate(now.getDate() - now.getDay()),
\* the Sunday of the current week at the current time of day
DefaultWeekStartDate(t) == t - DayOfWeek(t) * DayHours

DefaultWeeklyGoals(t) ==
    [ xpTarget |-> 1000,
      lessonsTarget |-> 7,
      timeTarget |-> 210,
      currentWeekXP |-> 0,
      currentWeekLessons |-> 0,
      currentWeekTime |-> 0,
      weekStartDate |-> DefaultWeekStartDate(t) ]

\* new Progress({ userId, language, skillProgress: [{ skill, level: 0, xp: 0,
\* accuracy: 0 }] }) as the practice routes construct it, at hour t
NewProgress(skill, t) ==
    [ lessonProgress |-> <<>>,
      speakingProgress |-> <<>>,
      listeningProgress |-> <<>>,
      skillProgress |-> << [skill |-> skill, level |-> 0, xp |-> 0,
                            accuracy |-> <<0, 1>>] >>,
      vocabularyProgress |-> <<>>,
      dailyProgress |-> <<>>,
      weeklyGoals |-> DefaultWeeklyGoals(t),
      statistics |-> DefaultStatistics ]

----------------------------------------------------------------------------
(* updateStatistics, Progress.js 600-628 *)

IsCompletedLesson(lp) == lp.status = "completed" \/ lp.status = "mastered"

\* variant: the average patched from its previous value instead of recomputed
LessonAverageScorePatched(doc) ==
    LET completedLessons == SelectSeq(doc.lessonProgress, IsCompletedLesson)
        old == doc.statistics.averageScore
    IN  IF Len(completedLessons) > 0
        THEN Quotient(old[1] * Len(completedLessons)
                        + Sum(Field(completedLessons, "score")) * old[2],
                      2 * old[2] * Len(completedLessons))
        ELSE old

\* statistics.averageScore: recomputed only when a lesson is completed
LessonAverageScore(doc) ==
    LET completedLessons == SelectSeq(doc.lessonProgress, IsCompletedLesson)
    IN  IF Len(completedLessons) > 0
        THEN Quotient(Sum(Field(completedLessons, "score")), Len(completedLessons))
        ELSE doc.statistics.averageScore

\* variant: the mean taken over the completed exercises only
ExerciseAverageScoreCompleted(list, old) ==
    LET completed(r) == r.isCompleted
        done == SelectSeq(list, completed)
    IN  IF Len(done) > 0 THEN Round(Sum(Field(done, "averageScore")), Len(done)) ELSE old

\* statistics.averageSpeakingScore / averageListeningScore: recomputed only
\* when the list is not empty, over every record of the list
ExerciseAverageScore(list, old) ==
    IF Len(list) > 0
    THEN Round(Sum(Field(list, "averageScore")), Len(list))
    ELSE old

updateStatistics(doc) ==
    LET perfect(lp) == lp.score = 100
        learned(vp) == vp.isLearned
        completed(r) == r.isCompleted
    IN  [doc EXCEPT !.statistics =
          [ totalLessonsCompleted |-> Len(SelectSeq(doc.lessonProgress, IsCompletedLesson)),
            totalTimeSpent |-> Sum(Field(doc.lessonProgress, "timeSpent")),
            averageScore |-> LessonAverageScore(doc),
            bestStreak |-> doc.statistics.bestStreak,
            wordsLearned |-> Len(SelectSeq(doc.vocabularyProgress, learned)),
            perfectScores |-> Len(SelectSeq(doc.lessonProgress, perfect)),
            speakingExercisesCompleted |-> Len(SelectSeq(doc.speakingProgress, completed)),
            listeningExercisesCompleted |-> Len(SelectSeq(doc.listeningProgress, completed)),
            averageSpeakingScore |->
                ExerciseAverageScore(doc.speakingProgress,
                                     doc.statistics.averageSpeakingScore),
            averageListeningScore |->
                ExerciseAverageScore(doc.listeningProgress,
                                     doc.statistics.averageListeningScore) ]]

----------------------------------------------------------------------------
(* updateSpeakingProgress and updateListeningProgress, Progress.js 394-511 *)

\* variant: a lookup that never finds the record
FindExerciseNever(list, exerciseId) == 0

\* this.speakingProgress.find(sp => sp.exerciseId === exerciseId)
FindExercise(list, exerciseId) ==
    FindIndex([i \in 1..Len(list) |-> list[i].exerciseId = exerciseId])

\* the plain object built for an exercise that has no record yet
NewExerciseRecord(exerciseId) ==
    [ exerciseId |-> exerciseId,
      attempts |-> <<>>,
      bestScore |-> 0,
      totalAttempts |-> 0,
      averageScore |-> 0,
      isCompleted |-> FALSE ]

\* Math.round((pronunciationScore + fluencyScore + accuracyScore) / 3)
OverallScore(attemptData) ==
    Round(attemptData.pronunciationScore + attemptData.fluencyScore
            + attemptData.accuracyScore, 3)

\* if (score > record.bestScore) record.bestScore = score
BestScore(bestScore, score) == IF score > bestScore THEN score ELSE bestScore

\* Math.round(attempts.reduce(sum of scores) / attempts.length)
AverageScore(scores) == Round(Sum(scores), Len(scores))

\* variant: completion from a score of 70
CompletedFlagFrom70(isCompleted, score) == IF score >= 70 THEN TRUE ELSE isCompleted

\* if (score >= 80) record.isCompleted = true
CompletedFlag(isCompleted, score) == IF score >= 80 THEN TRUE ELSE isCompleted

\* the statements of both methods that follow the find-or-create, applied to
\* the object the local variable refers to; scoreField names the attempts'
\* score (overallScore or comprehensionScore)
RecordAttempt(record, newAttempt, score, scoreField) ==
    LET attempts == Append(record.attempts, newAttempt)
    IN  [ record EXCEPT
            !.attempts = attempts,
            !.totalAttempts = record.totalAttempts + 1,
            !.bestScore = BestScore(record.bestScore, score),
            !.averageScore = AverageScore(Field(attempts, scoreField)),
            !.isCompleted = CompletedFlag(record.isCompleted, score) ]

\* The list after the method. When find() returns a sub-document of the list,
\* the statements mutate it in place. When it returns nothing, the method
\* pushes a plain object: the document array casts it to a new sub-document,
\* the local variable keeps referring to the plain object, and the statements
\* that follow mutate that object, not the stored sub-document.
ExerciseListAfter(list, exerciseId, newAttempt, score, scoreField) ==
    LET idx == FindExercise(list, exerciseId)
    IN  IF idx = 0
        THEN Append(list, NewExerciseRecord(exerciseId))
        ELSE [list EXCEPT ![idx] = RecordAttempt(list[idx], newAttempt, score, scoreField)]

updateSpeakingProgress(doc, exerciseData, attemptData) ==
    LET overallScore == OverallScore(attemptData)
        newAttempt ==
            [ pronunciationScore |-> attemptData.pronunciationScore,
              fluencyScore |-> attemptData.fluencyScore,
              accuracyScore |-> attemptData.accuracyScore,
              overallScore |-> overallScore ]
    IN  [ doc |-> updateStatistics(
                    [doc EXCEPT !.speakingProgress =
                        ExerciseListAfter(doc.speakingProgress, exerciseData.exerciseId,
                                          newAttempt, overallScore, "overallScore")]),
          result |-> [leveledUp |-> FALSE, newScore |-> overallScore] ]

updateListeningProgress(doc, exerciseData, attemptData) ==
    LET comprehensionScore == attemptData.comprehensionScore
        newAttempt == [ comprehensionScore |-> comprehensionScore ]
    IN  [ doc |-> updateStatistics(
                    [doc EXCEPT !.listeningProgress =
                        ExerciseListAfter(doc.listeningProgress, exerciseData.exerciseId,
                                          newAttempt, comprehensionScore, "comprehensionScore")]),
          result |-> [leveledUp |-> FALSE, newScore |-> comprehensionScore] ]

----------------------------------------------------------------------------
(* updateLessonProgress, Progress.js 350-391 *)

\* this.lessonProgress.find(lp => lp.lessonId.toString() === lessonId.toString())
FindLesson(list, lessonId) ==
    FindIndex([i \in 1..Len(list) |-> list[i].lessonId = lessonId])

\* status of a lesson that already has a record; attempts includes this attempt
LessonStatus(score, attempts) ==
    IF score >= 90 /\ attempts >= 2 THEN "mastered"
    ELSE IF score >= 70 THEN "completed"
    ELSE "in_progress"

\* variant: a first attempt of 90 or more masters the lesson at once
NewLessonStatusMastered(score) ==
    IF score >= 90 THEN "mastered" ELSE IF score >= 70 THEN "completed" ELSE "in_progress"

\* status of the record created by a lesson's first attempt
NewLessonStatus(score) == IF score >= 70 THEN "completed" ELSE "in_progress"

\* variant: the score of the latest attempt replaces the stored score
LessonScoreLatest(old, score) == score

\* if (score > lessonProgress.score) lessonProgress.score = score
LessonScore(old, score) == IF score > old THEN score ELSE old

\* the list after the method: the record found is mutated in place; a lesson
\* without a record gets one that is complete when it is pushed
LessonListAfter(list, lessonId, score, timeSpent) ==
    LET idx == FindLesson(list, lessonId)
    IN  IF idx # 0
        THEN [list EXCEPT ![idx] =
                [ @ EXCEPT
                    !.attempts = @ + 1,
                    !.timeSpent = @ + timeSpent,
                    !.score = LessonScore(@, score),
                    !.status = LessonStatus(score, list[idx].attempts + 1) ]]
        ELSE Append(list,
                [ lessonId |-> lessonId,
                  score |-> score,
                  attempts |-> 1,
                  timeSpent |-> timeSpent,
                  status |-> NewLessonStatus(score) ])

updateLessonProgress(doc, lessonId, score, timeSpent) ==
    updateStatistics(
        [doc EXCEPT !.lessonProgress = LessonListAfter(@, lessonId, score, timeSpent)])

----------------------------------------------------------------------------
(* updateSkillProgress, Progress.js 513-539 *)

\* this.skillProgress.find(sp => sp.skill === skill)
FindSkill(list, skill) ==
    FindIndex([i \in 1..Len(list) |-> list[i].skill = skill])

\* variant: the level without its cap
SkillLevelUncapped(xp) == Floor(xp, 500)

\* Math.min(Math.floor(skillProgress.xp / 500), 10)
SkillLevel(xp) == Min(Floor(xp, 500), 10)

\* (skillProgress.accuracy + accuracy) / 2, on exact fractions
SkillAccuracy(old, accuracy) == Quotient(old[1] + accuracy * old[2], 2 * old[2])

\* the statements that follow the find-or-create, applied to the object the
\* local variable refers to
SkillAfter(sp, xpGained, accuracy) ==
    LET xp == sp.xp + xpGained
        newLevel == SkillLevel(xp)
    IN  [ sp EXCEPT
            !.xp = xp,
            !.accuracy = SkillAccuracy(sp.accuracy, accuracy),
            !.level = IF newLevel > sp.level THEN newLevel ELSE sp.level ]

\* variant: an update that is applied to the record of every skill
updateSkillProgressEvery(doc, skill, xpGained, accuracy) ==
    [ doc |-> [doc EXCEPT !.skillProgress =
                 [i \in 1..Len(@) |-> SkillAfter(@[i], xpGained, accuracy)]],
      result |-> [leveledUp |-> FALSE, skill |-> skill, level |-> 0] ]

\* As for an exercise, a skill without a record is pushed as a plain object,
\* which the document array casts to a new sub-document: the statements that
\* follow mutate the plain object, and the result is computed from it.
updateSkillProgress(doc, skill, xpGained, accuracy) ==
    LET idx == FindSkill(doc.skillProgress, skill)
        local == IF idx # 0 THEN doc.skillProgress[idx]
                 ELSE [skill |-> skill, level |-> 0, xp |-> 0, accuracy |-> <<0, 1>>]
        after == SkillAfter(local, xpGained, accuracy)
    IN  [ doc |-> [doc EXCEPT !.skillProgress =
                     IF idx # 0 THEN [@ EXCEPT ![idx] = after] ELSE Append(@, local)],
          result |-> IF after.level > local.level
                     THEN [leveledUp |-> TRUE, skill |-> skill, newLevel |-> after.level]
                     ELSE [leveledUp |-> FALSE, skill |-> skill, level |-> after.level] ]

----------------------------------------------------------------------------
(* updateDailyProgress and updateWeeklyProgress, Progress.js 541-598 *)

\* variant: a week is over only after its eighth day has begun
WeekIsOverStrict(weekStartDate, t) == Floor(t - weekStartDate, DayHours) > 7

\* Math.floor((now - weekStart) / (1000 * 60 * 60 * 24)) >= 7
WeekIsOver(weekStartDate, t) == Floor(t - weekStartDate, DayHours) >= 7

\* variant: the week restarts at the local midnight of the day of the call
WeekStartOfToday(t) == Midnight(t)

\* new Date(now.getFullYear(), now.getMonth(), now.getDate() - now.getDay()):
\* local midnight of the Sunday of the week of t
WeekStartOf(t) == Midnight(t) - DayOfWeek(t) * DayHours

\* weeklyGoals after the reset of a week that is over (584-590)
WeeklyReset(goals, t) ==
    IF WeekIsOver(goals.weekStartDate, t)
    THEN [ goals EXCEPT
             !.currentWeekXP = 0,
             !.currentWeekLessons = 0,
             !.currentWeekTime = 0,
             !.weekStartDate = WeekStartOf(t) ]
    ELSE goals

\* variant: every activity type counts as a lesson
WeeklyAddAnyType(goals, xp, activityType, timeSpent) ==
    [ goals EXCEPT
        !.currentWeekXP = @ + xp,
        !.currentWeekTime = @ + timeSpent,
        !.currentWeekLessons = @ + 1 ]

\* weeklyGoals after the call's amounts are added (592-597)
WeeklyAdd(goals, xp, activityType, timeSpent) ==
    [ goals EXCEPT
        !.currentWeekXP = @ + xp,
        !.currentWeekTime = @ + timeSpent,
        !.currentWeekLessons = IF activityType = "lesson" THEN @ + 1 ELSE @ ]

\* variant: a call that resets the week does not count its own amounts
updateWeeklyProgressResetOrAdd(doc, t, xp, activityType, timeSpent) ==
    [doc EXCEPT !.weeklyGoals =
        IF WeekIsOver(@.weekStartDate, t)
        THEN WeeklyReset(@, t)
        ELSE WeeklyAdd(@, xp, activityType, timeSpent)]

updateWeeklyProgress(doc, t, xp, activityType, timeSpent) ==
    [doc EXCEPT !.weeklyGoals =
        WeeklyAdd(WeeklyReset(@, t), xp, activityType, timeSpent)]

\* variant: the time of day is kept
TodayWithTime(t) == t

\* today = new Date(); today.setHours(0, 0, 0, 0)
Today(t) == Midnight(t)

\* this.dailyProgress.find(dp => dp.date.getTime() === today.getTime())
FindDay(list, today) ==
    FindIndex([i \in 1..Len(list) |-> list[i].date = today])

\* the plain object built for a day that has no record yet
NewDailyRecord(today) ==
    [ date |-> today,
      xpEarned |-> 0,
      lessonsCompleted |-> 0,
      timeSpent |-> 0,
      activitiesCompleted |-> <<>> ]

\* dailyProgress.activitiesCompleted.find(a => a.type === activityType)
FindActivity(list, activityType) ==
    FindIndex([i \in 1..Len(list) |-> list[i].type = activityType])

\* activitiesCompleted of a stored daily record after the call (568-574): an
\* entry found is counted in place; for a type without an entry a plain
\* object { type, count: 0, xp: 0 } is pushed, the array stores a cast copy,
\* and count and xp are added to the plain object
ActivitiesAfter(list, activityType, xp) ==
    LET idx == FindActivity(list, activityType)
    IN  IF idx = 0
        THEN Append(list, [type |-> activityType, count |-> 0, xp |-> 0])
        ELSE [list EXCEPT ![idx] = [@ EXCEPT !.count = @ + 1, !.xp = @ + xp]]

\* the statements that follow the find-or-create (560-574), applied to a stored
\* daily record
DailyRecordAfter(dp, xp, activityType, timeSpent) ==
    [ dp EXCEPT
        !.xpEarned = @ + xp,
        !.timeSpent = @ + timeSpent,
        !.lessonsCompleted = IF activityType = "lesson" THEN @ + 1 ELSE @,
        !.activitiesCompleted = ActivitiesAfter(@, activityType, xp) ]

\* dailyProgress after the call: today's record, when find() returns it, is
\* updated in place; when there is none, a plain object is pushed, the array
\* stores a cast copy of it, and the statements that follow update the plain
\* object, not the stored record
DailyListAfter(list, t, xp, activityType, timeSpent) ==
    LET idx == FindDay(list, Today(t))
    IN  IF idx = 0
        THEN Append(list, NewDailyRecord(Today(t)))
        ELSE [list EXCEPT ![idx] = DailyRecordAfter(@, xp, activityType, timeSpent)]

updateDailyProgress(doc, t, xp, activityType, timeSpent) ==
    updateWeeklyProgress(
        [doc EXCEPT !.dailyProgress = DailyListAfter(@, t, xp, activityType, timeSpent)],
        t, xp, activityType, timeSpent)

----------------------------------------------------------------------------
(* DELETE /lessons/:lessonId, admin.js 454-474 and 932-941 *)

\* Progress.updateMany({...}, { $pull: { lessonProgress: { lessonId } } }): a
\* store-side update of the array, which runs no method of the document
PullLesson(doc, lessonId) ==
    LET other(lp) == lp.lessonId # lessonId
    IN  [doc EXCEPT !.lessonProgress = SelectSeq(@, other)]

----------------------------------------------------------------------------
(* POST /practice, listening.js 178-311 (listening) and 524-629 (speaking), *)
(* and the Progress collection it loads from and saves to.  A stored ledger *)
(* is [_id, userId, language, version, doc]; the collection holds the       *)
(* ledgers of one (userId, language) pair.                                  *)

\* variant: a listening reward without the completion bonus
ListeningXpRewardBaseOnly(comprehensionScore, completionRate) ==
    Round(comprehensionScore, 10) + 5

\* baseXP + completionBonus
ListeningXpReward(comprehensionScore, completionRate) ==
    (Round(comprehensionScore, 10) + 5) + Round(completionRate, 20)

\* Math.round(overallScore / 10) + 5
SpeakingXpReward(overallScore) == Round(overallScore, 10) + 5

\* newBestScore: result.newScore > (list.find(x => x.exerciseId ===
\* exerciseId)?.bestScore || 0), read from the document after the update
NewBestScore(list, exerciseId, newScore) ==
    LET idx == FindExercise(list, exerciseId)
    IN  newScore > (IF idx = 0 THEN 0 ELSE list[idx].bestScore)

\* the in-memory part of the listening route, 236-270
ListeningPractice(doc, t, body) ==
    LET recorded == updateListeningProgress(doc, [exerciseId |-> body.exerciseId],
                        [comprehensionScore |-> body.comprehensionScore])
        xpReward == ListeningXpReward(body.comprehensionScore, body.completionRate)
        skilled == updateSkillProgress(recorded.doc, "listening", xpReward,
                                       body.comprehensionScore)
    IN  [ doc |-> updateDailyProgress(skilled.doc, t, xpReward, "listening",
                                      Round(body.timeSpent, 60)),
          result |-> recorded.result,
          score |-> body.comprehensionScore,
          xpReward |-> xpReward,
          skillUpdate |-> skilled.result ]

\* the in-memory part of the speaking route, 574-603
SpeakingPractice(doc, t, body) ==
    LET attemptData == [pronunciationScore |-> body.pronunciationScore,
                        fluencyScore |-> body.fluencyScore,
                        accuracyScore |-> body.accuracyScore]
        recorded == updateSpeakingProgress(doc, [exerciseId |-> body.exerciseId],
                                           attemptData)
        overallScore == OverallScore(attemptData)
        xpReward == SpeakingXpReward(overallScore)
        skilled == updateSkillProgress(recorded.doc, "speaking", xpReward, overallScore)
    IN  [ doc |-> updateDailyProgress(skilled.doc, t, xpReward, "speaking",
                                      Round(body.recordingDuration, 60)),
          result |-> recorded.result,
          score |-> overallScore,
          xpReward |-> xpReward,
          skillUpdate |-> skilled.result ]

\* variant: a score validator without the upper limit
IsScoreAtLeastZero(x) == x >= 0

\* isInt({ min: 0, max: 100 }) of the score validators
IsScore(x) == x \in 0..100

\* !errors.isEmpty() for the body of a listening submission
ListeningErrors(body) ==
    \/ ~IsScore(body.comprehensionScore)
    \/ ~IsScore(body.completionRate)
    \/ body.timeSpent < 0

\* !errors.isEmpty() for the body of a speaking submission
SpeakingErrors(body) ==
    \/ ~IsScore(body.pronunciationScore)
    \/ ~IsScore(body.fluencyScore)
    \/ ~IsScore(body.accuracyScore)
    \/ body.recordingDuration < 0

\* The user document is kept by the User model, which is not among these
\* sources; of it the model keeps the XP total and the isActive flag, and
\* leaves the streak out.
NewUser == [xp |-> 0, isActive |-> TRUE]

\* req.user.addXP(xpReward): the XP total grows by the reward
addXP(u, xp) == [u EXCEPT !.xp = @ + xp]

\* req.user.save(): the modified XP total is written to the stored document
saveUser(stored, u) == [stored EXCEPT !.xp = u.xp]

\* Progress.findOne({ userId, language })
findOne(st) ==
    IF Len(st) = 0 THEN [found |-> FALSE] ELSE [found |-> TRUE, entry |-> st[1]]

\* the (userId, language) pair of the ledgers in the collection
UserId == "u1"
Language == "en"

\* the ledger document as the collection stores it on insert
NewLedger(id, doc) ==
    [_id |-> id, userId |-> UserId, language |-> Language, version |-> 0, doc |-> doc]

\* variant: a collection without the unique index
InsertLedgerAlways(st, id, doc) ==
    [ok |-> TRUE, store |-> Append(st, NewLedger(id, doc))]

\* save() of a document made with new Progress(...): an insert, which the
\* unique index { userId: 1, language: 1 } rejects with a duplicate-key error
\* when the collection holds a ledger of the pair
InsertLedger(st, id, doc) ==
    IF \E i \in 1..Len(st) : st[i].userId = UserId /\ st[i].language = Language
    THEN [ok |-> FALSE, store |-> st]
    ELSE [ok |-> TRUE, store |-> Append(st, NewLedger(id, doc))]

\* an element that the document had when loaded has been modified: save()
\* sends it by position and adds the loaded version to the update's filter
PositionalChange(old, new) == \E i \in 1..Len(old) : new[i] # old[i]

VersionChecked(old, new) ==
    \/ PositionalChange(old.speakingProgress, new.speakingProgress)
    \/ PositionalChange(old.listeningProgress, new.listeningProgress)
    \/ PositionalChange(old.skillProgress, new.skillProgress)
    \/ PositionalChange(old.dailyProgress, new.dailyProgress)

\* variant: the update adds the difference between the loaded and the new
\* value of a number to the stored value
FieldDeltaMerged(cur, old, new) ==
    [f \in DOMAIN cur |->
        IF new[f] = old[f] THEN cur[f]
        ELSE IF new[f] \in Int /\ old[f] \in Int /\ cur[f] \in Int
             THEN cur[f] + (new[f] - old[f])
        ELSE new[f]]

\* a nested document after the update: the modified fields are set to their
\* new values, the other fields keep their stored values
FieldDelta(cur, old, new) ==
    [f \in DOMAIN cur |-> IF new[f] # old[f] THEN new[f] ELSE cur[f]]

\* the arrays inside the elements of the document's arrays
NestedLists == {"attempts", "activitiesCompleted"}

\* an array inside an element after the update: the modified fields of the
\* entries it had when loaded are set by position, the pushed entries are
\* appended to the stored array
NestedDelta(cur, old, new) ==
    [i \in 1..Len(cur) |->
        IF i <= Len(old) THEN FieldDelta(cur[i], old[i], new[i]) ELSE cur[i]]
    \o SubSeq(new, Len(old) + 1, Len(new))

\* an element of an array after the update
ElementDelta(cur, old, new) ==
    [f \in DOMAIN cur |->
        IF f \in NestedLists THEN NestedDelta(cur[f], old[f], new[f])
        ELSE IF new[f] # old[f] THEN new[f] ELSE cur[f]]

\* an array after the update save() sends: the modified fields of the elements
\* it had when loaded are set by position, the pushed elements are appended
\* to the stored array
ListDelta(cur, old, new) ==
    [i \in 1..Len(cur) |->
        IF i <= Len(old) THEN ElementDelta(cur[i], old[i], new[i]) ELSE cur[i]]
    \o SubSeq(new, Len(old) + 1, Len(new))

\* the stored document after the update save() sends for the paths modified
\* since the load
DocDelta(cur, old, new) ==
    [ cur EXCEPT
        !.speakingProgress = ListDelta(@, old.speakingProgress, new.speakingProgress),
        !.listeningProgress = ListDelta(@, old.listeningProgress, new.listeningProgress),
        !.skillProgress = ListDelta(@, old.skillProgress, new.skillProgress),
        !.dailyProgress = ListDelta(@, old.dailyProgress, new.dailyProgress),
        !.weeklyGoals = FieldDelta(@, old.weeklyGoals, new.weeklyGoals),
        !.statistics = FieldDelta(@, old.statistics, new.statistics) ]

\* save() of a loaded document: an update of the ledger with the loaded _id.
\* The routes pass no version and make no check of their own.  Whether the
\* update's filter carries the loaded version when elements are set by
\* position depends on the release of the document library, which these
\* sources do not fix: `checked` is that choice.  With the filter, an update
\* on a stored version other than the loaded one is rejected with a version
\* error; without it, the update is applied to whatever is stored.
UpdateLedger(st, loaded, doc, checked) ==
    LET k == CHOOSE i \in 1..Len(st) : st[i]._id = loaded._id
    IN  IF checked /\ VersionChecked(loaded.doc, doc)
             /\ st[k].version # loaded.version
        THEN [ok |-> FALSE, store |-> st]
        ELSE [ok |-> TRUE,
              store |-> [st EXCEPT ![k] =
                            [@ EXCEPT !.version = @ + 1,
                                      !.doc = DocDelta(@, loaded.doc, doc)]]]

\* progress.save()
save(st, loaded, id, doc, checked) ==
    IF loaded.found THEN UpdateLedger(st, loaded.entry, doc, checked)
    ELSE InsertLedger(st, id, doc)

----------------------------------------------------------------------------
(* State machine *)

NoCall == [op |-> "none"]

\* a request slot with no submission in it
Idle == [pc |-> "idle"]

EmptyHistory ==
    [ speaking |-> [e \in ExerciseIds |-> <<>>],
      listening |-> [e \in ExerciseIds |-> <<>>],
      lesson |-> [l \in LessonIds |->
                    [calls |-> 0, timeSpent |-> 0, kept |-> 0, keptTime |-> 0]] ]

\* the history of a lesson after a call of updateLessonProgress: calls and
\* timeSpent count every call, kept and keptTime the calls since the record
\* of the lesson was last removed
LessonCalled(h, timeSpent) ==
    [ calls |-> h.calls + 1, timeSpent |-> h.timeSpent + timeSpent,
      kept |-> h.kept + 1, keptTime |-> h.keptTime + timeSpent ]

\* the history of a lesson after its record has been removed
LessonRemoved(h) == [h EXCEPT !.kept = 0, !.keptTime = 0]

\* a ledger as a practice route has just constructed it at hour t, before its
\* first call
InitAt(t) ==
    /\ \E skill \in SkillNames : progress = NewProgress(skill, t)
    /\ lessonCatalog = LessonIds
    /\ submitted = EmptyHistory
    /\ last = NoCall
    /\ nOps = 0
    /\ now = t
    /\ store = <<>>
    /\ req = [r \in Requests |-> Idle]
    /\ user = NewUser
    /\ nFaults = 0

\* the specifications in which no time passes start at hour 0
Init == InitAt(0)

\* the rollup specification starts at any of the start times
InitRollup == \E t \in StartTimes : InitAt(t)

\* the first listening submission of the user, answered before the behaviour
\* starts: its body, what the handler computes, the store and the user after
FirstBody ==
    [exerciseId |-> "ex1", comprehensionScore |-> 55, completionRate |-> 100,
     timeSpent |-> 90]
FirstPractice == ListeningPractice(NewProgress("listening", 0), 0, FirstBody)
FirstStore == save(<<>>, [found |-> FALSE], 0, FirstPractice.doc, FALSE).store
FirstUser == saveUser(NewUser, addXP(NewUser, FirstPractice.xpReward))

\* the route specifications start before the first submission of the user or
\* on the day after it
InitRoute ==
    /\ progress = NewProgress("listening", 0)
    /\ lessonCatalog = LessonIds
    /\ submitted = EmptyHistory
    /\ last = NoCall
    /\ nOps = 0
    /\ \E first \in BOOLEAN :
        /\ now = IF first THEN DayHours ELSE 0
        /\ store = IF first THEN FirstStore ELSE <<>>
        /\ user = IF first THEN FirstUser ELSE NewUser
    /\ req = [r \in Requests |-> Idle]
    /\ nFaults = 0

\* progress.updateSpeakingProgress(exerciseData, attemptData)
SpeakingAttempt(cap) ==
    /\ nOps < cap
    /\ \E e \in ExerciseIds, p \in PronunciationScores, f \in FluencyScores,
          a \in AccuracyScores :
        LET attemptData == [pronunciationScore |-> p, fluencyScore |-> f,
                            accuracyScore |-> a]
            out == updateSpeakingProgress(progress, [exerciseId |-> e], attemptData)
        IN  /\ progress' = out.doc
            /\ submitted' = [submitted EXCEPT
                                !.speaking[e] = Append(@, out.result.newScore)]
            /\ last' = [op |-> "speaking", id |-> e, score |-> out.result.newScore,
                        attemptData |-> attemptData,
                        result |-> out.result, before |-> progress]
    /\ nOps' = nOps + 1
    /\ UNCHANGED <<lessonCatalog, now, store, req, user, nFaults>>

\* progress.updateListeningProgress(exerciseData, attemptData)
ListeningAttempt(cap) ==
    /\ nOps < cap
    /\ \E e \in ExerciseIds, c \in ComprehensionScores :
        LET out == updateListeningProgress(progress, [exerciseId |-> e],
                                           [comprehensionScore |-> c])
        IN  /\ progress' = out.doc
            /\ submitted' = [submitted EXCEPT !.listening[e] = Append(@, c)]
            /\ last' = [op |-> "listening", id |-> e, score |-> c,
                        result |-> out.result, before |-> progress]
    /\ nOps' = nOps + 1
    /\ UNCHANGED <<lessonCatalog, now, store, req, user, nFaults>>

\* progress.updateLessonProgress(lessonId, score, timeSpent)
LessonAttempt(cap) ==
    /\ nOps < cap
    /\ \E l \in LessonIds, s \in LessonScores, t \in LessonTimes :
        /\ progress' = updateLessonProgress(progress, l, s, t)
        /\ submitted' = [submitted EXCEPT !.lesson[l] = LessonCalled(@, t)]
        /\ last' = [op |-> "lesson", id |-> l, score |-> s, timeSpent |-> t,
                    before |-> progress]
    /\ nOps' = nOps + 1
    /\ UNCHANGED <<lessonCatalog, now, store, req, user, nFaults>>

\* progress.updateSkillProgress(skill, xpGained, accuracy)
SkillUpdate(cap) ==
    /\ nOps < cap
    /\ \E k \in SkillNames, x \in XpDeltas, a \in AccuracySamples :
        LET out == updateSkillProgress(progress, k, x, a)
        IN  /\ progress' = out.doc
            /\ last' = [op |-> "skill", id |-> k, xp |-> x, accuracy |-> a,
                        result |-> out.result, before |-> progress]
    /\ nOps' = nOps + 1
    /\ UNCHANGED <<lessonCatalog, submitted, now, store, req, user, nFaults>>

\* progress.updateStatistics() called on its own
StatisticsUpdate(cap) ==
    /\ nOps < cap
    /\ progress' = updateStatistics(progress)
    /\ last' = [op |-> "statistics", before |-> progress]
    /\ nOps' = nOps + 1
    /\ UNCHANGED <<lessonCatalog, submitted, now, store, req, user, nFaults>>

\* DELETE /lessons/:lessonId as admin.js 454-474 has it: 404 when the lesson
\* does not exist, else the lesson is deleted and pulled from the ledgers
AdminDeleteLesson(cap) ==
    /\ nOps < cap
    /\ \E l \in LessonIds :
        IF l \in lessonCatalog
        THEN /\ lessonCatalog' = lessonCatalog \ {l}
             /\ progress' = PullLesson(progress, l)
             /\ submitted' = [submitted EXCEPT !.lesson[l] = LessonRemoved(@)]
             /\ last' = [op |-> "deleteLesson", id |-> l, status |-> 200,
                         before |-> progress]
        ELSE /\ last' = [op |-> "deleteLesson", id |-> l, status |-> 404,
                         before |-> progress]
             /\ UNCHANGED <<lessonCatalog, progress, submitted>>
    /\ nOps' = nOps + 1
    /\ UNCHANGED <<now, store, req, user, nFaults>>

\* DELETE /lessons/:lessonId as admin.js 932-941 has it: the lesson is deleted
\* and no ledger is touched
AdminDeleteLessonOnly(cap) ==
    /\ nOps < cap
    /\ \E l \in LessonIds :
        /\ lessonCatalog' = lessonCatalog \ {l}
        /\ last' = [op |-> "deleteLessonOnly", id |-> l, status |-> 200,
                    before |-> progress]
    /\ nOps' = nOps + 1
    /\ UNCHANGED <<progress, submitted, now, store, req, user, nFaults>>

\* progress.updateDailyProgress(xp, activityType, timeSpent), which ends with
\* this.updateWeeklyProgress(xp, activityType, timeSpent)
DailyUpdate(cap) ==
    /\ nOps < cap
    /\ \E x \in RollupXp, a \in ActivityTypes, m \in RollupTimes :
        /\ progress' = updateDailyProgress(progress, now, x, a, m)
        /\ last' = [op |-> "daily", xp |-> x, activityType |-> a, timeSpent |-> m,
                    before |-> progress]
    /\ nOps' = nOps + 1
    /\ UNCHANGED <<lessonCatalog, submitted, now, store, req, user, nFaults>>

\* time passes between two calls
Tick(cap) ==
    /\ nOps < cap
    /\ \E d \in TimeSteps : now' = now + d
    /\ last' = NoCall
    /\ nOps' = nOps + 1
    /\ UNCHANGED <<progress, lessonCatalog, submitted, store, req, user, nFaults>>

\* whether a persistence call may fail in this step
Faults == IF nFaults < MaxFaults THEN BOOLEAN ELSE {FALSE}

\* a request answered without a ledger having been loaded: status 400 for a
\* body the validators refuse, status 500 when findOne rejects
Refused(route, body, id, status) ==
    [ pc |-> "done", route |-> route, exerciseId |-> body.exerciseId, body |-> body,
      id |-> id, loaded |-> [found |-> FALSE], score |-> 0, xpReward |-> 0,
      status |-> status, newBestScore |-> FALSE, xpEarned |-> 0,
      ledger |-> "none", userSave |-> "none" ]

\* the request of slot r after the handler has loaded the ledger (or made a
\* new one) and updated it and req.user in memory; both saves are pending
Loaded(route, body, id, found, out, u) ==
    [ pc |-> "loaded", route |-> route, exerciseId |-> body.exerciseId, body |-> body,
      id |-> id, loaded |-> found, doc |-> out.doc, result |-> out.result,
      score |-> out.score, xpReward |-> out.xpReward, skillUpdate |-> out.skillUpdate,
      user |-> addXP(u, out.xpReward),
      status |-> 0, ledger |-> "pending", userSave |-> "pending" ]

\* variant: an answer of success as soon as one of the saves has resolved
StatusOfEither(ledger, userSave) ==
    IF ledger = "ok" \/ userSave = "ok" THEN 200
    ELSE IF ledger = "failed" \/ userSave = "failed" THEN 500
    ELSE 0

\* await Promise.all([progress.save(), req.user.save()]): the handler answers
\* with res.json(...) when both saves have resolved and with status 500 as
\* soon as one has rejected; 0 while it has not answered
Status(ledger, userSave) ==
    IF ledger = "failed" \/ userSave = "failed" THEN 500
    ELSE IF ledger = "ok" /\ userSave = "ok" THEN 200
    ELSE 0

\* the request after a save has resolved or rejected
Done(r, ledger, userSave) ==
    LET status == Status(ledger, userSave)
        list == IF r.route = "speaking" THEN r.doc.speakingProgress
                ELSE r.doc.listeningProgress
    IN  IF ledger = "pending" \/ userSave = "pending"
        THEN [r EXCEPT !.ledger = ledger, !.userSave = userSave, !.status = status]
        ELSE [ pc |-> "done", route |-> r.route, exerciseId |-> r.exerciseId,
               body |-> r.body, id |-> r.id, loaded |-> r.loaded, score |-> r.score,
               xpReward |-> r.xpReward, status |-> status,
               newBestScore |->
                   status = 200 /\ NewBestScore(list, r.exerciseId, r.result.newScore),
               xpEarned |-> IF status = 200 THEN r.xpReward ELSE 0,
               ledger |-> ledger, userSave |-> userSave ]

\* the call the route has just refused, and the store and the user before it
RefusedCall(route, status) ==
    [op |-> "refused", route |-> route, status |-> status,
     storeBefore |-> store, userBefore |-> user]

\* POST /practice (listening) up to the saves: validation, findOne, new
\* Progress when no ledger is found, and the in-memory updates
ListeningLoad(cap) ==
    /\ nOps < cap
    /\ \E r \in Requests, e \in RouteExerciseIds,
          c \in RouteComprehensionScores \cup InvalidScores,
          cr \in CompletionRates, ts \in TimeSpentSeconds, fault \in Faults :
        /\ req[r].pc \in {"idle", "done"}
        /\ LET found == findOne(store)
               doc == IF found.found THEN found.entry.doc
                      ELSE NewProgress("listening", now)
               body == [exerciseId |-> e, comprehensionScore |-> c,
                        completionRate |-> cr, timeSpent |-> ts]
           IN  IF ListeningErrors(body)
               THEN /\ req' = [req EXCEPT ![r] = Refused("listening", body, nOps + 1, 400)]
                    /\ last' = RefusedCall("listening", 400)
                    /\ UNCHANGED nFaults
               ELSE IF fault
               THEN /\ req' = [req EXCEPT ![r] = Refused("listening", body, nOps + 1, 500)]
                    /\ last' = RefusedCall("listening", 500)
                    /\ nFaults' = nFaults + 1
               ELSE /\ req' = [req EXCEPT ![r] =
                                  Loaded("listening", body, nOps + 1, found,
                                         ListeningPractice(doc, now, body), user)]
                    /\ last' = NoCall
                    /\ UNCHANGED nFaults
    /\ nOps' = nOps + 1
    /\ UNCHANGED <<progress, lessonCatalog, submitted, now, store, user>>

\* POST /practice (speaking) up to the saves
SpeakingLoad(cap) ==
    /\ nOps < cap
    /\ \E r \in Requests, e \in RouteExerciseIds,
          p \in RoutePronunciationScores \cup InvalidScores,
          f \in RouteFluencyScores, a \in RouteAccuracyScores, d \in RecordingDurations,
          fault \in Faults :
        /\ req[r].pc \in {"idle", "done"}
        /\ LET found == findOne(store)
               doc == IF found.found THEN found.entry.doc
                      ELSE NewProgress("speaking", now)
               body == [exerciseId |-> e, pronunciationScore |-> p,
                        fluencyScore |-> f, accuracyScore |-> a,
                        recordingDuration |-> d]
           IN  IF SpeakingErrors(body)
               THEN /\ req' = [req EXCEPT ![r] = Refused("speaking", body, nOps + 1, 400)]
                    /\ last' = RefusedCall("speaking", 400)
                    /\ UNCHANGED nFaults
               ELSE IF fault
               THEN /\ req' = [req EXCEPT ![r] = Refused("speaking", body, nOps + 1, 500)]
                    /\ last' = RefusedCall("speaking", 500)
                    /\ nFaults' = nFaults + 1
               ELSE /\ req' = [req EXCEPT ![r] =
                                  Loaded("speaking", body, nOps + 1, found,
                                         SpeakingPractice(doc, now, body), user)]
                    /\ last' = NoCall
                    /\ UNCHANGED nFaults
    /\ nOps' = nOps + 1
    /\ UNCHANGED <<progress, lessonCatalog, submitted, now, store, user>>

\* the write of progress.save() of request r reaches the store, or fails
LedgerSave(r, checked, fault) ==
    /\ req[r].pc = "loaded"
    /\ req[r].ledger = "pending"
    /\ LET out == IF fault THEN [ok |-> FALSE, store |-> store]
                  ELSE save(store, req[r].loaded, req[r].id, req[r].doc, checked)
       IN  /\ store' = out.store
           /\ req' = [req EXCEPT ![r] =
                         Done(req[r], IF out.ok THEN "ok" ELSE "failed", req[r].userSave)]
    /\ nFaults' = IF fault THEN nFaults + 1 ELSE nFaults
    /\ last' = NoCall
    /\ UNCHANGED <<progress, lessonCatalog, submitted, nOps, now, user>>

\* POST /practice (listening): progress.save()
ListeningSave ==
    \E r \in Requests, checked \in BOOLEAN, fault \in Faults :
        /\ req[r].pc = "loaded"
        /\ req[r].route = "listening"
        /\ LedgerSave(r, checked, fault)

\* POST /practice (speaking): progress.save()
SpeakingSave ==
    \E r \in Requests, checked \in BOOLEAN, fault \in Faults :
        /\ req[r].pc = "loaded"
        /\ req[r].route = "speaking"
        /\ LedgerSave(r, checked, fault)

\* POST /practice (either route): the write of req.user.save() reaches the
\* store, or fails
UserSave ==
    \E r \in Requests, fault \in Faults :
        /\ req[r].pc = "loaded"
        /\ req[r].userSave = "pending"
        /\ user' = IF fault THEN user ELSE saveUser(user, req[r].user)
        /\ req' = [req EXCEPT ![r] =
                      Done(req[r], req[r].ledger, IF fault THEN "failed" ELSE "ok")]
        /\ nFaults' = IF fault THEN nFaults + 1 ELSE nFaults
        /\ last' = NoCall
        /\ UNCHANGED <<progress, lessonCatalog, submitted, nOps, now, store>>

\* the progress object of the answer when no ledger is found
ZeroProgress ==
    [ totalExercises |-> 0, completedExercises |-> 0, averageScore |-> 0,
      totalAttempts |-> 0, recentAttempts |-> 0, skillLevel |-> 0, skillXP |-> 0 ]

\* progressStats of a ledger: list is the exercise list of the route,
\* completed and average its two statistics fields; of recentAttempts the
\* model keeps the length
ProgressStats(doc, list, skill, completed, average) ==
    LET idx == FindSkill(doc.skillProgress, skill)
    IN  [ totalExercises |-> Len(list),
          completedExercises |-> completed,
          averageScore |-> average,
          totalAttempts |-> Sum(Field(list, "totalAttempts")),
          recentAttempts |-> Min(Sum([i \in 1..Len(list) |-> Len(list[i].attempts)]), 10),
          skillLevel |-> IF idx = 0 THEN 0 ELSE doc.skillProgress[idx].level,
          skillXP |-> IF idx = 0 THEN 0 ELSE doc.skillProgress[idx].xp ]

\* variant: a query that answers 404 when there is no ledger
QueryAnswerNotFound(route, found) ==
    IF ~found.found THEN [status |-> 404, progress |-> ZeroProgress]
    ELSE [status |-> 200, progress |-> ZeroProgress]

\* GET /progress/:language after findOne has resolved
QueryAnswer(route, found) ==
    IF ~found.found THEN [status |-> 200, progress |-> ZeroProgress]
    ELSE LET doc == found.entry.doc
         IN  [ status |-> 200,
               progress |->
                 IF route = "speaking"
                 THEN ProgressStats(doc, doc.speakingProgress, "speaking",
                                    doc.statistics.speakingExercisesCompleted,
                                    doc.statistics.averageSpeakingScore)
                 ELSE ProgressStats(doc, doc.listeningProgress, "listening",
                                    doc.statistics.listeningExercisesCompleted,
                                    doc.statistics.averageListeningScore) ]

\* GET /progress/:language of one of the two routers: findOne and the
\* answer, or status 500 when findOne rejects
Query(route, fault) ==
    /\ last' = [ op |-> "query", route |-> route,
                 found |-> ~fault /\ findOne(store).found,
                 failed |-> fault,
                 answer |-> IF fault THEN [status |-> 500]
                            ELSE QueryAnswer(route, findOne(store)),
                 storeBefore |-> store, userBefore |-> user ]
    /\ nFaults' = IF fault THEN nFaults + 1 ELSE nFaults
    /\ UNCHANGED <<progress, lessonCatalog, submitted, nOps, now, store, req, user>>

\* GET /progress/:language of the listening router
ListeningQuery == \E fault \in Faults : Query("listening", fault)

\* GET /progress/:language of the speaking router
SpeakingQuery == \E fault \in Faults : Query("speaking", fault)

\* variant: a deletion that removes the ledgers of the user with the user
DeleteUserCascade(u, st) == [user |-> [u EXCEPT !.isActive = FALSE], store |-> <<>>]

\* User.findByIdAndUpdate(userId, { isActive: false, ... }): the user is
\* deactivated; no call on the Progress collection is made
DeleteUser(u, st) == [user |-> [u EXCEPT !.isActive = FALSE], store |-> st]

\* DELETE /users/:userId of the admin router
AdminDeleteUser ==
    /\ user' = DeleteUser(user, store).user
    /\ store' = DeleteUser(user, store).store
    /\ last' = [op |-> "deleteUser", storeBefore |-> store, userBefore |-> user]
    /\ UNCHANGED <<progress, lessonCatalog, submitted, nOps, now, req, nFaults>>

\* speaking and listening practice on one ledger
NextPractice ==
    \/ SpeakingAttempt(MaxPracticeOps)
    \/ ListeningAttempt(MaxPracticeOps)

SpecPractice == Init /\ [][NextPractice]_vars

\* lesson attempts, lesson deletion and statistics on one ledger
NextLesson ==
    \/ LessonAttempt(MaxLessonOps)
    \/ AdminDeleteLesson(MaxLessonOps)
    \/ AdminDeleteLessonOnly(MaxLessonOps)
    \/ StatisticsUpdate(MaxLessonOps)

SpecLesson == Init /\ [][NextLesson]_vars

\* lesson and practice attempts and lesson deletion on one ledger
NextCompletion ==
    \/ LessonAttempt(MaxCompletionOps)
    \/ SpeakingAttempt(MaxCompletionOps)
    \/ ListeningAttempt(MaxCompletionOps)
    \/ AdminDeleteLesson(MaxCompletionOps)

SpecCompletion == Init /\ [][NextCompletion]_vars

\* the payloads of the reward specification
ListeningBodies ==
    [ exerciseId : RouteExerciseIds, comprehensionScore : RewardScores,
      completionRate : RewardRates, timeSpent : TimeSpentSeconds ]
SpeakingBodies ==
    [ exerciseId : RouteExerciseIds, pronunciationScore : RewardScores,
      fluencyScore : RewardSubScores, accuracyScore : RewardSubScores,
      recordingDuration : RecordingDurations ]

\* the ledger a submission of the reward specification works on: the one the
\* route constructs, or the one a first submission has left
RewardLedger(used) ==
    IF used THEN FirstStore[1].doc ELSE NewProgress("listening", 0)

\* the reward specification starts with a valid payload for one of the
\* routes and a ledger
InitReward ==
    /\ progress = NewProgress("listening", 0)
    /\ lessonCatalog = LessonIds
    /\ submitted = EmptyHistory
    /\ \E used \in BOOLEAN :
        \/ \E body \in ListeningBodies :
              last = [op |-> "payload", route |-> "listening", body |-> body,
                      used |-> used]
        \/ \E body \in SpeakingBodies :
              last = [op |-> "payload", route |-> "speaking", body |-> body,
                      used |-> used]
    /\ nOps = 0
    /\ now = 0
    /\ store = <<>>
    /\ req = [r \in Requests |-> Idle]
    /\ user = NewUser
    /\ nFaults = 0

\* the in-memory part of POST /practice (listening) on the payload
ListeningReward ==
    /\ last.op = "payload" /\ last.route = "listening"
    /\ LET out == ListeningPractice(RewardLedger(last.used), now, last.body)
       IN  last' = [op |-> "reward", route |-> "listening", body |-> last.body,
                    used |-> last.used, score |-> out.score,
                    xpReward |-> out.xpReward]
    /\ UNCHANGED <<progress, lessonCatalog, submitted, nOps, now, store, req, user,
                   nFaults>>

\* the in-memory part of POST /practice (speaking) on the payload
SpeakingReward ==
    /\ last.op = "payload" /\ last.route = "speaking"
    /\ LET out == SpeakingPractice(RewardLedger(last.used), now, last.body)
       IN  last' = [op |-> "reward", route |-> "speaking", body |-> last.body,
                    used |-> last.used, score |-> out.score,
                    xpReward |-> out.xpReward]
    /\ UNCHANGED <<progress, lessonCatalog, submitted, nOps, now, store, req, user,
                   nFaults>>

\* the reward computation of the two practice routes
NextReward ==
    \/ ListeningReward
    \/ SpeakingReward

SpecReward == InitReward /\ [][NextReward]_vars

\* attempts, skill updates and daily rollups on one ledger
NextFrame ==
    \/ SpeakingAttempt(MaxFrameOps)
    \/ ListeningAttempt(MaxFrameOps)
    \/ LessonAttempt(MaxFrameOps)
    \/ SkillUpdate(MaxFrameOps)
    \/ DailyUpdate(MaxFrameOps)

SpecFrame == Init /\ [][NextFrame]_vars

\* skill updates on one ledger
NextSkill == SkillUpdate(MaxSkillOps)

SpecSkill == Init /\ [][NextSkill]_vars

\* daily and weekly rollup on one ledger, as time passes
NextRollup ==
    \/ DailyUpdate(MaxRollupOps)
    \/ Tick(MaxRollupOps)

SpecRollup == InitRollup /\ [][NextRollup]_vars

\* practice submissions of one user in one language, two at a time
NextRoute ==
    \/ ListeningLoad(MaxRouteOps)
    \/ SpeakingLoad(MaxRouteOps)
    \/ ListeningSave
    \/ SpeakingSave
    \/ UserSave

SpecRoute == InitRoute /\ [][NextRoute]_vars

\* the practice routes, the progress queries and the deletion of the user
NextService ==
    \/ ListeningLoad(MaxServiceOps)
    \/ SpeakingLoad(MaxServiceOps)
    \/ ListeningSave
    \/ SpeakingSave
    \/ UserSave
    \/ ListeningQuery
    \/ SpeakingQuery
    \/ AdminDeleteUser

SpecService == InitRoute /\ [][NextService]_vars

\* every operation on one ledger
Next ==
    \/ SpeakingAttempt(MaxOps)
    \/ ListeningAttempt(MaxOps)
    \/ LessonAttempt(MaxOps)
    \/ SkillUpdate(MaxOps)
    \/ StatisticsUpdate(MaxOps)
    \/ AdminDeleteLesson(MaxOps)
    \/ AdminDeleteLessonOnly(MaxOps)

Spec == Init /\ [][Next]_vars

----------------------------------------------------------------------------
(* Claims *)

\* the stored record of an exercise id in a list (the first one), if any
HasRecord(list, exerciseId) == \E i \in 1..Len(list) : list[i].exerciseId = exerciseId
RecordOf(list, exerciseId) ==
    list[CHOOSE i \in 1..Len(list) : list[i].exerciseId = exerciseId]

\* the list the last practice call worked on, after and before the call
PracticeCall == last.op \in {"speaking", "listening"}
ListNow == IF last.op = "speaking" THEN progress.speakingProgress
           ELSE progress.listeningProgress
ListBefore == IF last.op = "speaking" THEN last.before.speakingProgress
              ELSE last.before.listeningProgress

\* maximum of a non-empty sequence of numbers
RECURSIVE MaxOf(_)
MaxOf(s) ==
    IF Len(s) = 1 THEN s[1]
    ELSE IF Head(s) > MaxOf(Tail(s)) THEN Head(s) ELSE MaxOf(Tail(s))

\* C1: after N >= 1 recorded attempts on an exercise, its stored bestScore is
\* the maximum of the N attempt scores, and bestScore never decreases from
\* one attempt to the next.
C1_BestScoreIsMax ==
    /\ \A e \in ExerciseIds :
        /\ submitted.speaking[e] # <<>> =>
             /\ HasRecord(progress.speakingProgress, e)
             /\ RecordOf(progress.speakingProgress, e).bestScore
                  = MaxOf(submitted.speaking[e])
        /\ submitted.listening[e] # <<>> =>
             /\ HasRecord(progress.listeningProgress, e)
             /\ RecordOf(progress.listeningProgress, e).bestScore
                  = MaxOf(submitted.listening[e])
    /\ (PracticeCall /\ HasRecord(ListBefore, last.id)) =>
          RecordOf(ListNow, last.id).bestScore >= RecordOf(ListBefore, last.id).bestScore

\* n is x / d rounded to the nearest integer, halves up
IsRounded(n, x, d) == 2 * d * n <= 2 * x + d /\ 2 * x + d < 2 * d * (n + 1)

\* C2: after N >= 1 recorded attempts on an exercise, its stored averageScore
\* is round(sum of the N attempt scores / N).
C2_AverageIsRoundedMean ==
    \A e \in ExerciseIds :
        /\ submitted.speaking[e] # <<>> =>
             /\ HasRecord(progress.speakingProgress, e)
             /\ IsRounded(RecordOf(progress.speakingProgress, e).averageScore,
                          Sum(submitted.speaking[e]), Len(submitted.speaking[e]))
        /\ submitted.listening[e] # <<>> =>
             /\ HasRecord(progress.listeningProgress, e)
             /\ IsRounded(RecordOf(progress.listeningProgress, e).averageScore,
                          Sum(submitted.listening[e]), Len(submitted.listening[e]))

\* the level the claim gives for an amount of XP: min(floor(xp / 500), 10)
ClaimedLevel(xp) == IF xp \div 500 < 10 THEN xp \div 500 ELSE 10

SkillCall == last.op = "skill"
SkillKnownBefore ==
    SkillCall /\ \E i \in 1..Len(last.before.skillProgress) :
                    last.before.skillProgress[i].skill = last.id
SkillRecord(doc, skill) ==
    doc.skillProgress[CHOOSE i \in 1..Len(doc.skillProgress) :
                         doc.skillProgress[i].skill = skill]

NoDuplicateExercise(list) ==
    \A i, j \in 1..Len(list) : list[i].exerciseId = list[j].exerciseId => i = j

\* C4: each of speakingProgress and listeningProgress holds at most one entry
\* per exerciseId; an attempt on a known exerciseId appends one attempt to
\* that entry's log and adds no entry.
C4_OneEntryPerExercise ==
    /\ NoDuplicateExercise(progress.speakingProgress)
    /\ NoDuplicateExercise(progress.listeningProgress)
    /\ (PracticeCall /\ HasRecord(ListBefore, last.id)) =>
        /\ Len(ListNow) = Len(ListBefore)
        /\ Len(RecordOf(ListNow, last.id).attempts)
             = Len(RecordOf(ListBefore, last.id).attempts) + 1
        /\ SubSeq(RecordOf(ListNow, last.id).attempts, 1,
                  Len(RecordOf(ListBefore, last.id).attempts))
             = RecordOf(ListBefore, last.id).attempts

\* C4 witness: a repeated attempt on a known exercise, in a list of two
C4_Witness_Repeated ==
    /\ PracticeCall
    /\ HasRecord(ListBefore, last.id)
    /\ Len(ListNow) = 2
    /\ Len(RecordOf(ListNow, last.id).attempts) = 2

\* C5: isCompleted becomes true on any attempt scoring >= 80 and, once true,
\* stays true after every later attempt.
C5_CompletionRatchet ==
    PracticeCall =>
        /\ last.score >= 80 =>
             /\ HasRecord(ListNow, last.id)
             /\ RecordOf(ListNow, last.id).isCompleted
        /\ (HasRecord(ListBefore, last.id) /\ RecordOf(ListBefore, last.id).isCompleted)
             => RecordOf(ListNow, last.id).isCompleted

LessonCall == last.op = "lesson"
LessonRecord(doc, lessonId) ==
    doc.lessonProgress[CHOOSE i \in 1..Len(doc.lessonProgress) :
                          doc.lessonProgress[i].lessonId = lessonId]

\* C6: after updateLessonProgress the lesson's status is 'mastered' if the
\* call's score >= 90 and the attempt count (this attempt included) >= 2,
\* else 'completed' if score >= 70, else 'in_progress'; a first attempt of 95
\* gives 'completed', a second attempt of 92 gives 'mastered'.
C6_LessonStatus ==
    LessonCall =>
        LET lp == LessonRecord(progress, last.id)
        IN  /\ (last.score >= 90 /\ lp.attempts >= 2) => lp.status = "mastered"
            /\ (last.score >= 70 /\ ~(last.score >= 90 /\ lp.attempts >= 2))
                 => lp.status = "completed"
            /\ last.score < 70 => lp.status = "in_progress"
            /\ (last.score = 95 /\ lp.attempts = 1) => lp.status = "completed"
            /\ (last.score = 92 /\ lp.attempts = 2) => lp.status = "mastered"

\* C6 witness: a second attempt scoring 92, after a first attempt scoring 95
\* that left the lesson 'completed', has made the lesson 'mastered'
C6_Witness_Mastered ==
    /\ LessonCall
    /\ last.score = 92
    /\ Len(last.before.lessonProgress) = 1
    /\ last.before.lessonProgress[1].lessonId = last.id
    /\ LessonRecord(last.before, last.id).attempts = 1
    /\ LessonRecord(last.before, last.id).score = 95
    /\ LessonRecord(last.before, last.id).status = "completed"
    /\ LessonRecord(progress, last.id).attempts = 2
    /\ LessonRecord(progress, last.id).status = "mastered"

\* C7: after every operation that changes the lesson, speaking, listening or
\* vocabulary records (an attempt, the admin's deletion of a lesson), the
\* statistics block equals what updateStatistics computes from the collections.
C7_StatisticsNeverDrift ==
    last.op \in {"speaking", "listening", "lesson", "deleteLesson"} =>
        progress.statistics = updateStatistics(progress).statistics

\* the lesson records that count as completed, and sums over lesson records
RECURSIVE SumScores(_)
SumScores(s) == IF s = <<>> THEN 0 ELSE Head(s).score + SumScores(Tail(s))
RECURSIVE SumTimes(_)
SumTimes(s) == IF s = <<>> THEN 0 ELSE Head(s).timeSpent + SumTimes(Tail(s))
DoneLessons ==
    LET done(lp) == lp.status \in {"completed", "mastered"}
    IN  SelectSeq(progress.lessonProgress, done)

\* C8: after every updateStatistics call, totalLessonsCompleted is the number
\* of completed or mastered lesson records, totalTimeSpent the sum of
\* timeSpent over all lesson records, and averageScore the mean score of the
\* completed or mastered records, 0 when there is none.
C8_LessonStatistics ==
    last.op \in {"lesson", "statistics"} =>
        /\ progress.statistics.totalLessonsCompleted = Len(DoneLessons)
        /\ progress.statistics.totalTimeSpent = SumTimes(progress.lessonProgress)
        /\ IF Len(DoneLessons) = 0
           THEN progress.statistics.averageScore[1] = 0
           ELSE progress.statistics.averageScore[1] * Len(DoneLessons)
                  = SumScores(DoneLessons) * progress.statistics.averageScore[2]

RECURSIVE SumAverages(_)
SumAverages(s) == IF s = <<>> THEN 0 ELSE Head(s).averageScore + SumAverages(Tail(s))
CompletedOf(list) == LET done(r) == r.isCompleted IN SelectSeq(list, done)

\* the counts of completed exercises the claim states
CompletedCounts ==
    /\ progress.statistics.speakingExercisesCompleted
         = Len(CompletedOf(progress.speakingProgress))
    /\ progress.statistics.listeningExercisesCompleted
         = Len(CompletedOf(progress.listeningProgress))

\* stat is the rounded mean of averageScore over the records of list
IsMeanOfAverages(stat, list) ==
    list # <<>> => IsRounded(stat, SumAverages(list), Len(list))

\* C9 as stated: after every updateStatistics call the completed counts are
\* the numbers of records with isCompleted, and averageSpeakingScore and
\* averageListeningScore are the rounded means of the per-exercise
\* averageScore over the completed exercises (when there is one).
C9_Original_MeanOverCompleted ==
    PracticeCall =>
        /\ CompletedCounts
        /\ IsMeanOfAverages(progress.statistics.averageSpeakingScore,
                            CompletedOf(progress.speakingProgress))
        /\ IsMeanOfAverages(progress.statistics.averageListeningScore,
                            CompletedOf(progress.listeningProgress))

\* C9 amended: after every updateStatistics call the completed counts are the
\* numbers of records with isCompleted, and averageSpeakingScore and
\* averageListeningScore are the rounded means of the per-exercise
\* averageScore over all speaking and all listening records (0 while there
\* is none), completed or not.
C9_MeanOverAllRecords ==
    PracticeCall =>
        /\ CompletedCounts
        /\ IsMeanOfAverages(progress.statistics.averageSpeakingScore,
                            progress.speakingProgress)
        /\ IsMeanOfAverages(progress.statistics.averageListeningScore,
                            progress.listeningProgress)
        /\ progress.speakingProgress = <<>>
             => progress.statistics.averageSpeakingScore = 0
        /\ progress.listeningProgress = <<>>
             => progress.statistics.averageListeningScore = 0

\* C9 witness: a listening list with a completed and a not completed exercise
\* whose averages differ, so that the two means differ
C9_Witness_Mixed ==
    /\ last.op = "listening"
    /\ Len(progress.listeningProgress) = 2
    /\ Len(CompletedOf(progress.listeningProgress)) = 1
    /\ progress.listeningProgress[1].averageScore
         # progress.listeningProgress[2].averageScore
    /\ progress.statistics.listeningExercisesCompleted = 1

\* C10: updateStatistics is idempotent and touches statistics only: right
\* after a call, a second call leaves the document as the first call left it,
\* and the first call changed no field outside statistics.
C10_StatisticsIdempotent ==
    /\ updateStatistics(updateStatistics(progress)) = updateStatistics(progress)
    /\ [updateStatistics(progress) EXCEPT !.statistics = progress.statistics] = progress
    /\ last.op = "statistics" =>
        /\ updateStatistics(progress) = progress
        /\ [progress EXCEPT !.statistics = last.before.statistics] = last.before

\* C10 witness: a call on a ledger whose statistics had drifted changed them
C10_Witness_Recomputed ==
    /\ last.op = "statistics"
    /\ progress.statistics # last.before.statistics

----------------------------------------------------------------------------
(* Daily and weekly rollup *)

DailyCall == last.op = "daily"
WeekHours == 7 * DayHours
GoalsNow == progress.weeklyGoals
GoalsBefore == last.before.weeklyGoals
Elapsed == now - GoalsBefore.weekStartDate
LessonCount == IF last.activityType = "lesson" THEN 1 ELSE 0

\* d is the local midnight of the most recent Sunday at or before t
IsSundayBefore(d, t) == d % WeekHours = 0 /\ d <= t /\ t < d + WeekHours

\* C11: the weekly counters are reset exactly when the time elapsed since the
\* stored weekStartDate is 7 days or more, and in no other case; a reset sets
\* weekStartDate to the local midnight of the most recent Sunday at or before
\* now.
C11_WeeklyResetCondition ==
    DailyCall =>
        IF Elapsed >= WeekHours
        THEN /\ IsSundayBefore(GoalsNow.weekStartDate, now)
             /\ GoalsNow.weekStartDate > GoalsBefore.weekStartDate
             /\ GoalsNow.currentWeekXP = last.xp
        ELSE /\ GoalsNow.weekStartDate = GoalsBefore.weekStartDate
             /\ GoalsNow.currentWeekXP = GoalsBefore.currentWeekXP + last.xp

\* C11 witness: a call more than 7 days after an anchor that is not a midnight
\* has reset a counter that was above zero.
C11_Witness_Reset ==
    /\ DailyCall
    /\ Elapsed >= WeekHours
    /\ GoalsBefore.weekStartDate % DayHours # 0
    /\ GoalsBefore.currentWeekXP > last.xp
    /\ GoalsNow.currentWeekXP = last.xp

\* the three counters restart from zero and count the call; the anchor advances
WeekRestarted ==
    /\ GoalsNow.weekStartDate > GoalsBefore.weekStartDate
    /\ GoalsNow.currentWeekXP = last.xp
    /\ GoalsNow.currentWeekTime = last.timeSpent
    /\ GoalsNow.currentWeekLessons = LessonCount

\* the anchor stays and the three counters grow by the call's amounts
WeekContinued ==
    /\ GoalsNow.weekStartDate = GoalsBefore.weekStartDate
    /\ GoalsNow.currentWeekXP = GoalsBefore.currentWeekXP + last.xp
    /\ GoalsNow.currentWeekTime = GoalsBefore.currentWeekTime + last.timeSpent
    /\ GoalsNow.currentWeekLessons = GoalsBefore.currentWeekLessons + LessonCount

TargetsKept ==
    /\ GoalsNow.xpTarget = GoalsBefore.xpTarget
    /\ GoalsNow.lessonsTarget = GoalsBefore.lessonsTarget
    /\ GoalsNow.timeTarget = GoalsBefore.timeTarget

\* C12 as stated: when more than 7 days have elapsed since weekStartDate the
\* three counters are reset and the anchor advances; otherwise the anchor is
\* unchanged and the counters grow by the call's xp, time and (for a lesson)
\* 1; the weekly targets are never changed.
C12_Original_MoreThanSevenDays ==
    DailyCall =>
        /\ IF Elapsed > WeekHours THEN WeekRestarted ELSE WeekContinued
        /\ TargetsKept

\* C12: when 7 days or more have elapsed since weekStartDate the three
\* counters restart from zero, count the call, and the anchor advances;
\* otherwise the anchor is unchanged and the counters grow by the call's xp,
\* time and (for a lesson) 1; the weekly targets are never changed.
C12_SevenDaysOrMore ==
    DailyCall =>
        /\ IF Elapsed >= WeekHours THEN WeekRestarted ELSE WeekContinued
        /\ TargetsKept

\* C12 witness: a call that is not a lesson, exactly 7 days after the anchor,
\* on counters that a lesson had raised.
C12_Witness_ExactlySevenDays ==
    /\ DailyCall
    /\ Elapsed = WeekHours
    /\ last.activityType # "lesson"
    /\ GoalsBefore.currentWeekLessons > 0
    /\ GoalsNow.currentWeekLessons = 0

HasDay(doc, day) ==
    \E i \in 1..Len(doc.dailyProgress) : doc.dailyProgress[i].date \div DayHours = day
DayRecord(doc, day) ==
    doc.dailyProgress[CHOOSE i \in 1..Len(doc.dailyProgress) :
                         doc.dailyProgress[i].date \div DayHours = day]
CalendarDay == now \div DayHours

\* C13: dailyProgress holds at most one record per calendar day; a call on a
\* day that already has a record adds no record and updates that one.
C13_OneRecordPerDay ==
    /\ \A i, j \in 1..Len(progress.dailyProgress) :
          progress.dailyProgress[i].date \div DayHours
            = progress.dailyProgress[j].date \div DayHours => i = j
    /\ (DailyCall /\ HasDay(last.before, CalendarDay)) =>
          /\ Len(progress.dailyProgress) = Len(last.before.dailyProgress)
          /\ DayRecord(progress, CalendarDay).xpEarned
               = DayRecord(last.before, CalendarDay).xpEarned + last.xp

\* C13 witness: a call at noon has updated the record that calls at midnight
\* of the same day had created and updated.
C13_Witness_SameDay ==
    /\ DailyCall
    /\ now % DayHours # 0
    /\ HasDay(last.before, CalendarDay)
    /\ DayRecord(last.before, CalendarDay).xpEarned > 0
    /\ Len(progress.dailyProgress) = 1

\* count and xp of the entry of a type in a daily record, 0 without an entry
ActivityCount(dp, type) ==
    Sum([i \in 1..Len(dp.activitiesCompleted) |->
            IF dp.activitiesCompleted[i].type = type
            THEN dp.activitiesCompleted[i].count ELSE 0])
ActivityXp(dp, type) ==
    Sum([i \in 1..Len(dp.activitiesCompleted) |->
            IF dp.activitiesCompleted[i].type = type
            THEN dp.activitiesCompleted[i].xp ELSE 0])
HasActivity(dp, type) ==
    \E i \in 1..Len(dp.activitiesCompleted) : dp.activitiesCompleted[i].type = type

\* today's record before the call; a day without a record counts as zeroes
DayBefore ==
    IF HasDay(last.before, CalendarDay) THEN DayRecord(last.before, CalendarDay)
    ELSE [date |-> CalendarDay * DayHours, xpEarned |-> 0, lessonsCompleted |-> 0,
          timeSpent |-> 0, activitiesCompleted |-> <<>>]

\* C14: a call increases today's xpEarned by xp, timeSpent by the call's
\* time, lessonsCompleted by 1 for a lesson and by 0 otherwise, and the count
\* and xp of the entry of the activity type by 1 and xp, creating the entry
\* when absent; the records of other days are unchanged.
C14_DailyIncrements ==
    DailyCall =>
        /\ HasDay(progress, CalendarDay)
        /\ LET dp == DayRecord(progress, CalendarDay)
           IN  /\ dp.xpEarned = DayBefore.xpEarned + last.xp
               /\ dp.timeSpent = DayBefore.timeSpent + last.timeSpent
               /\ dp.lessonsCompleted = DayBefore.lessonsCompleted + LessonCount
               /\ HasActivity(dp, last.activityType)
               /\ ActivityCount(dp, last.activityType)
                    = ActivityCount(DayBefore, last.activityType) + 1
               /\ ActivityXp(dp, last.activityType)
                    = ActivityXp(DayBefore, last.activityType) + last.xp
        /\ \A i \in 1..Len(last.before.dailyProgress) :
              last.before.dailyProgress[i].date \div DayHours # CalendarDay
                => progress.dailyProgress[i] = last.before.dailyProgress[i]

----------------------------------------------------------------------------
(* Skill accuracy and the level-up report *)

\* the skill record before the call; a skill without a record starts from 0
SkillBefore ==
    IF SkillKnownBefore THEN SkillRecord(last.before, last.id)
    ELSE [skill |-> last.id, level |-> 0, xp |-> 0, accuracy |-> <<0, 1>>]

\* the fraction a equals (the fraction old + sample) / 2
IsHalfSum(a, old, sample) ==
    a[1] * 2 * old[2] = (old[1] + sample * old[2]) * a[2]

\* C15: every updateSkillProgress call sets the accuracy of the skill record
\* to exactly (previous accuracy + sample) / 2, where the previous accuracy
\* of a skill without a record is 0.
C15_AccuracyHalfSum ==
    SkillCall =>
        IsHalfSum(SkillRecord(progress, last.id).accuracy,
                  SkillBefore.accuracy, last.accuracy)

\* C16: the call reports leveledUp = true, the skill name and the new level
\* exactly when the level computed from the XP after the delta exceeds the
\* level stored before the call, and leveledUp = false with the unchanged
\* level otherwise; the reported level is the level stored after the call.
C16_LevelUpReport ==
    SkillCall =>
        LET computed == ClaimedLevel(SkillBefore.xp + last.xp)
            stored == SkillRecord(progress, last.id).level
        IN  /\ last.result.leveledUp = (computed > SkillBefore.level)
            /\ last.result.skill = last.id
            /\ IF last.result.leveledUp
               THEN last.result.newLevel = stored
               ELSE /\ last.result.level = stored
                    /\ last.result.level = SkillBefore.level

----------------------------------------------------------------------------
(* The first attempt on an exercise and the overall score *)

\* C17: the overall score of a speaking attempt, as returned and as stored
\* with the logged attempt, is round((pronunciation + fluency + accuracy) / 3);
\* sub-scores 90, 80, 70 give 80 and leave the exercise completed.
C17_OverallScore ==
    last.op = "speaking" =>
        LET a == last.attemptData
            total == a.pronunciationScore + a.fluencyScore + a.accuracyScore
            rec == RecordOf(progress.speakingProgress, last.id)
        IN  /\ IsRounded(last.result.newScore, total, 3)
            /\ HasRecord(progress.speakingProgress, last.id)
            /\ Len(rec.attempts) > 0
            /\ rec.attempts[Len(rec.attempts)].overallScore = last.result.newScore
            /\ (a.pronunciationScore = 90 /\ a.fluencyScore = 80
                  /\ a.accuracyScore = 70)
                 => (last.result.newScore = 80 /\ rec.isCompleted)

\* C18: the first attempt on an exercise that has no record leaves a stored
\* record with one logged attempt, totalAttempts 1, bestScore and
\* averageScore equal to the attempt's score, and isCompleted exactly when
\* the score is 80 or more.
C18_FirstAttemptRecord ==
    (PracticeCall /\ ~HasRecord(ListBefore, last.id)) =>
        /\ HasRecord(ListNow, last.id)
        /\ LET rec == RecordOf(ListNow, last.id)
           IN  /\ Len(rec.attempts) = 1
               /\ rec.totalAttempts = 1
               /\ rec.bestScore = last.score
               /\ rec.averageScore = last.score
               /\ rec.isCompleted = (last.score >= 80)

----------------------------------------------------------------------------
(* The practice routes *)

Answered(r) == req[r].pc = "done" /\ req[r].status = 200

\* the list of the route of request r in the document it loaded
LoadedList(r) ==
    IF ~req[r].loaded.found THEN <<>>
    ELSE IF req[r].route = "speaking" THEN req[r].loaded.entry.doc.speakingProgress
    ELSE req[r].loaded.entry.doc.listeningProgress

\* the best score of the exercise before the attempt of request r, 0 for an
\* exercise without a record
BestBefore(r) ==
    IF HasRecord(LoadedList(r), req[r].exerciseId)
    THEN RecordOf(LoadedList(r), req[r].exerciseId).bestScore
    ELSE 0

\* C19: the answer to a recorded attempt carries a new-personal-best signal
\* that is true exactly when the attempt's score is strictly greater than the
\* exercise's best score before the attempt, 0 for a new exercise.
C19_NewBestSignal ==
    \A r \in Requests :
        Answered(r) => (req[r].newBestScore = (req[r].score > BestBefore(r)))

\* C20: the collection never holds more than one ledger of the (userId,
\* language) pair, whatever the interleaving of the submissions.
C20_OneLedgerPerPair == Len(store) <= 1

\* C20 witness: two submissions have both found no ledger on load and both
\* have saved; one was answered and one was refused.
C20_Witness_ConcurrentFirst ==
    /\ nFaults = 0
    /\ \A r \in Requests :
        req[r].pc = "done" /\ ~req[r].loaded.found /\ req[r].ledger # "none"
    /\ \E r \in Requests : req[r].status = 200
    /\ \E r \in Requests : req[r].status = 500 /\ req[r].ledger = "failed"
    /\ Len(store) = 1

\* two submissions that were both answered with success after both had loaded
\* the same version of the ledger, with no other write to it since
Overlapped(r1, r2) ==
    /\ r1 # r2
    /\ Answered(r1) /\ Answered(r2)
    /\ req[r1].loaded.found /\ req[r2].loaded.found
    /\ req[r1].loaded.entry.version = req[r2].loaded.entry.version
    /\ Len(store) = 1
    /\ store[1].version = req[r1].loaded.entry.version + 2

\* the XP of the week in a ledger
WeekXp(doc) == doc.weeklyGoals.currentWeekXP

\* the XP of a skill in a ledger, 0 without a record
SkillXp(doc, skill) ==
    IF FindSkill(doc.skillProgress, skill) = 0 THEN 0
    ELSE doc.skillProgress[FindSkill(doc.skillProgress, skill)].xp

\* C21: when two submissions that loaded the same version of the ledger have
\* both been answered with success, the stored XP of the week and the stored
\* XP of the skill hold the reward of one of them only: each is smaller than
\* what the two acknowledged submissions earned together.
C21_LostUpdate ==
    \A r1, r2 \in Requests :
        Overlapped(r1, r2) =>
            LET loaded == req[r1].loaded.entry.doc
            IN  /\ WeekXp(store[1].doc) \in
                      { WeekXp(loaded) + req[r1].xpEarned,
                        WeekXp(loaded) + req[r2].xpEarned }
                /\ \A skill \in SkillNames :
                      SkillXp(store[1].doc, skill) <
                          SkillXp(loaded, skill) + req[r1].xpEarned + req[r2].xpEarned

\* C21 witness: two speaking submissions on a ledger that has no speaking
\* record were both answered with success; each save carried pushes and the
\* weekly totals only, and the store holds the weekly XP of one of them.
C21_Witness_BothAcknowledged ==
    \E r1, r2 \in Requests :
        /\ Overlapped(r1, r2)
        /\ req[r1].route = "speaking" /\ req[r2].route = "speaking"
        /\ ~VersionChecked(req[r1].loaded.entry.doc, store[1].doc)
        /\ Len(store[1].doc.speakingProgress) = 2
        /\ WeekXp(store[1].doc) <
              WeekXp(req[r1].loaded.entry.doc) + req[r1].xpEarned + req[r2].xpEarned

\* C22: a submission persists its effects as one write: when a submission
\* has ended, its update of the ledger and its update of the user are either
\* both stored or both not stored.
C22_AtomicWrite ==
    \A r \in Requests :
        req[r].pc = "done" => ((req[r].ledger = "ok") <=> (req[r].userSave = "ok"))

\* the last step was a progress query that found no ledger of the pair
QueriedNoLedger ==
    /\ last.op = "query"
    /\ ~last.failed
    /\ last.storeBefore = <<>>

\* C23: a progress query for a pair without a ledger is answered with
\* success and with zeroed defaults (0 exercises, 0 completed, average 0,
\* 0 attempts, no recent attempts, skill level 0, skill XP 0), and leaves the
\* store and the user as they were: no ledger is created.
C23_QueryWithoutLedger ==
    QueriedNoLedger =>
        /\ last.answer.status = 200
        /\ last.answer.progress.totalExercises = 0
        /\ last.answer.progress.completedExercises = 0
        /\ last.answer.progress.averageScore = 0
        /\ last.answer.progress.totalAttempts = 0
        /\ last.answer.progress.recentAttempts = 0
        /\ last.answer.progress.skillLevel = 0
        /\ last.answer.progress.skillXP = 0
        /\ store = <<>>
        /\ user = last.userBefore

\* C23 witness: a query of the speaking router was answered while the store
\* held no ledger, after a submission had been refused.
C23_Witness_QueryNoLedger ==
    /\ QueriedNoLedger
    /\ last.route = "speaking"
    /\ last.answer.status = 200
    /\ \E r \in Requests : req[r].pc = "done" /\ req[r].status = 400

\* the scores of the body of a submission
ScoresOf(r) ==
    IF r.route = "speaking"
    THEN {r.body.pronunciationScore, r.body.fluencyScore, r.body.accuracyScore}
    ELSE {r.body.comprehensionScore, r.body.completionRate}

\* a submission with a score outside 0..100
OutOfRange(r) == \E x \in ScoresOf(r) : x < 0 \/ x > 100

\* C24: a submission with a score outside 0..100 is answered with the
\* validation error (status 400) without a ledger having been loaded, made or
\* saved and without the user having been saved, and the refusal leaves the
\* store and the user record as they were.
C24_RejectedBeforeLoad ==
    /\ \A r \in Requests :
          (req[r].pc # "idle" /\ OutOfRange(req[r])) =>
              /\ req[r].pc = "done"
              /\ req[r].status = 400
              /\ ~req[r].loaded.found
              /\ req[r].ledger = "none"
              /\ req[r].userSave = "none"
    /\ (last.op = "refused" /\ last.status = 400) =>
          store = last.storeBefore /\ user = last.userBefore

\* C24 witness: a speaking submission with a sub-score of 101 has just been
\* refused while the store held a ledger of the pair.
C24_Witness_Rejected ==
    /\ last.op = "refused" /\ last.status = 400 /\ last.route = "speaking"
    /\ Len(store) = 1
    /\ \E r \in Requests :
          req[r].pc = "done" /\ req[r].status = 400 /\ OutOfRange(req[r])

\* a persistence call of the submission has failed: one of the saves, or the
\* load of a submission that passed validation
CallFailed(r) ==
    \/ r.ledger = "failed"
    \/ r.userSave = "failed"
    \/ r.ledger = "none" /\ ~OutOfRange(r)

\* the answers agree with the outcomes of the persistence calls
FailureAnswered ==
    \A r \in Requests :
        req[r].pc # "idle" =>
            /\ CallFailed(req[r]) => req[r].status = 500
            /\ (req[r].status = 200) <=>
                   (req[r].ledger = "ok" /\ req[r].userSave = "ok")

\* a failed call of a submission in flight is not made again, and its
\* failure answer stands
NotRetried ==
    \A r \in Requests :
        req[r].pc = "loaded" =>
            /\ req[r].ledger = "failed" => req'[r].ledger = "failed"
            /\ req[r].userSave = "failed" => req'[r].userSave = "failed"
            /\ req[r].status = 500 => req'[r].status = 500

\* C25: when the load or one of the saves of a submission fails, the answer
\* is the failure response (status 500) and never success; success is
\* answered only when both the ledger save and the user save have
\* succeeded; and a failed call is not retried.
C25_FailureIsAnswered == []FailureAnswered /\ [][NotRetried]_vars

\* C25 witness: the ledger save of a submission has failed with a store
\* error, its user save has succeeded, and it has been answered 500.
C25_Witness_SaveFailed ==
    /\ nFaults = 1
    /\ \E r \in Requests :
        /\ req[r].pc = "done"
        /\ req[r].loaded.found
        /\ req[r].ledger = "failed" /\ req[r].userSave = "ok"
        /\ req[r].status = 500
        /\ store[1].version = req[r].loaded.entry.version

\* a ledger whose collections are all empty
AllEmpty(doc) ==
    /\ doc.lessonProgress = <<>>
    /\ doc.speakingProgress = <<>>
    /\ doc.listeningProgress = <<>>
    /\ doc.vocabularyProgress = <<>>

\* the statistics are numbers: counts, two rounded means in 0..100 and one
\* mean that is a quotient with a positive divisor
StatisticsDefined(st) ==
    /\ st.totalLessonsCompleted \in Nat
    /\ st.totalTimeSpent \in Nat
    /\ st.perfectScores \in Nat
    /\ st.wordsLearned \in Nat
    /\ st.speakingExercisesCompleted \in Nat
    /\ st.listeningExercisesCompleted \in Nat
    /\ st.averageSpeakingScore \in 0..100
    /\ st.averageListeningScore \in 0..100
    /\ st.averageScore[2] > 0
    /\ st.averageScore[1] \in 0..(100 * st.averageScore[2])

\* every statistic is 0
StatisticsZero(st) ==
    /\ st.totalLessonsCompleted = 0
    /\ st.totalTimeSpent = 0
    /\ st.perfectScores = 0
    /\ st.wordsLearned = 0
    /\ st.speakingExercisesCompleted = 0
    /\ st.listeningExercisesCompleted = 0
    /\ st.averageSpeakingScore = 0
    /\ st.averageListeningScore = 0
    /\ st.averageScore[1] = 0

\* C26: every operation of the ledger leaves statistics that are numbers
\* (no division by zero has produced one), and updateStatistics on a ledger
\* whose collections are all empty leaves every statistic at 0.
C26_TotalOnEmpty ==
    /\ StatisticsDefined(progress.statistics)
    /\ (last.op = "statistics" /\ AllEmpty(progress)) =>
          StatisticsZero(progress.statistics)

\* every ledger of the store is still in the store after the step, with the
\* userId and the language it had
LedgersKept ==
    \A i \in 1..Len(store) :
        /\ i <= Len(store')
        /\ store'[i]._id = store[i]._id
        /\ store'[i].userId = store[i].userId
        /\ store'[i].language = store[i].language

\* C27: no step removes a ledger from the store or changes its userId or
\* language; the deletion of the owning user by the admin deactivates the
\* user and leaves the ledgers in the store.
C27_LedgerNeverRemoved == [][LedgersKept]_vars

\* C27 witness: the admin has just deleted the user, who is deactivated, and
\* the ledger of the user is in the store as it was.
C27_Witness_UserDeleted ==
    /\ last.op = "deleteUser"
    /\ last.userBefore.isActive /\ ~user.isActive
    /\ Len(store) = 1
    /\ store = last.storeBefore
    /\ store[1].userId = UserId

\* the ledger has a record of the lesson
HasLesson(doc, lessonId) ==
    \E i \in 1..Len(doc.lessonProgress) : doc.lessonProgress[i].lessonId = lessonId

\* every exercise record that was completed before the last call is still in
\* its place and completed
CompletedKept(before, after) ==
    \A i \in 1..Len(before) :
        before[i].isCompleted =>
            /\ i <= Len(after)
            /\ after[i].exerciseId = before[i].exerciseId
            /\ after[i].isCompleted

\* C28: the score of a lesson record is the maximum of the scores of its
\* attempts (after an attempt it is the greater of the stored score and the
\* attempt's score, and the attempt's score for a new record) and no
\* operation decreases it; the isCompleted flag of a speaking or listening
\* record never returns to false.  The status of a lesson record is not a
\* ratchet: the witness is a lesson that was completed and is in progress
\* again.
C28_ScoreRatchetStatusNot ==
    last.op # "none" =>
        /\ \A l \in LessonIds :
              (HasLesson(last.before, l) /\ HasLesson(progress, l)) =>
                  LessonRecord(progress, l).score >= LessonRecord(last.before, l).score
        /\ LessonCall =>
              LessonRecord(progress, last.id).score =
                  IF HasLesson(last.before, last.id)
                     /\ LessonRecord(last.before, last.id).score > last.score
                  THEN LessonRecord(last.before, last.id).score
                  ELSE last.score
        /\ CompletedKept(last.before.speakingProgress, progress.speakingProgress)
        /\ CompletedKept(last.before.listeningProgress, progress.listeningProgress)

\* C28 witness: a lesson that was completed or mastered has had an attempt
\* scoring below 70 and is in progress again, with its score kept.
C28_Witness_StatusReverted ==
    /\ LessonCall
    /\ last.score < 70
    /\ HasLesson(last.before, last.id)
    /\ LessonRecord(last.before, last.id).status \in {"completed", "mastered"}
    /\ LessonRecord(progress, last.id).status = "in_progress"
    /\ LessonRecord(progress, last.id).score = LessonRecord(last.before, last.id).score

\* attempts >= 1, a status other than 'not_started', and at least two
\* attempts behind a 'mastered'
LessonRecordSound(lp) ==
    /\ lp.attempts >= 1
    /\ lp.status \in {"in_progress", "completed", "mastered"}
    /\ lp.status = "mastered" => lp.attempts >= 2

LogOf(list, exerciseId) ==
    IF HasRecord(list, exerciseId) THEN RecordOf(list, exerciseId).attempts ELSE <<>>

\* C30: the attempt log of an exercise is append-only and in insertion
\* order: a recording call leaves the log of its exercise as it was with
\* exactly one entry added at the end, and leaves the log of every other
\* exercise as it was.
C30_AppendOnlyLog ==
    PracticeCall =>
        \A e \in ExerciseIds :
            LET before == LogOf(ListBefore, e)
                after == LogOf(ListNow, e)
            IN  IF e = last.id
                THEN /\ Len(after) = Len(before) + 1
                     /\ SubSeq(after, 1, Len(before)) = before
                ELSE after = before

\* C31: the XP reward of a submission is a function of its payload alone: for
\* speaking it is round(overallScore / 10) + 5 and lies in 5..15; for
\* listening it is round(comprehensionScore / 10) + 5 (in 5..15) plus
\* round(completionRate / 20) (in 0..5), whatever the ledger holds.
C31_RewardFromPayload ==
    last.op = "reward" =>
        IF last.route = "speaking"
        THEN /\ last.xpReward = Round(last.score, 10) + 5
             /\ last.score = Round(last.body.pronunciationScore + last.body.fluencyScore
                                     + last.body.accuracyScore, 3)
             /\ last.xpReward \in 5..15
        ELSE LET base == Round(last.body.comprehensionScore, 10) + 5
                 bonus == Round(last.body.completionRate, 20)
             IN  /\ last.xpReward = base + bonus
                 /\ base \in 5..15
                 /\ bonus \in 0..5

\* C31 witness: a listening submission with comprehension score 100 and
\* completion rate 100 on a ledger that already holds records earns 20.
C31_Witness_FullReward ==
    /\ last.op = "reward" /\ last.route = "listening" /\ last.used
    /\ last.body.comprehensionScore = 100 /\ last.body.completionRate = 100
    /\ last.xpReward = 20

\* the speaking and the listening records of the ledger
ExerciseRecords ==
    {progress.speakingProgress[i] : i \in 1..Len(progress.speakingProgress)}
        \cup {progress.listeningProgress[i] : i \in 1..Len(progress.listeningProgress)}

\* C32: every speaking and listening record of the ledger has totalAttempts
\* equal to the length of its attempt log, and totalAttempts >= 1.
C32_AttemptsCounted ==
    \A record \in ExerciseRecords :
        /\ record.totalAttempts = Len(record.attempts)
        /\ record.totalAttempts >= 1

\* C33: every speaking and listening record of the ledger is completed
\* exactly when its best score is at least 80, and its average score is not
\* above its best score.
C33_CompletedIffBest80 ==
    \A record \in ExerciseRecords :
        /\ record.isCompleted <=> record.bestScore >= 80
        /\ record.averageScore <= record.bestScore

\* C33 witness: a completed record with a best score of at least 80 and a
\* lower average, after an attempt below 80 that left it completed.
C33_Witness_CompletedKept ==
    /\ PracticeCall
    /\ last.score < 80
    /\ HasRecord(ListNow, last.id)
    /\ RecordOf(ListNow, last.id).isCompleted
    /\ RecordOf(ListNow, last.id).bestScore >= 80
    /\ RecordOf(ListNow, last.id).averageScore < RecordOf(ListNow, last.id).bestScore

\* the elements of a list that do not carry the given key are where and as
\* they were, and every element added carries the key
OthersKept(before, after, field, key) ==
    /\ Len(after) >= Len(before)
    /\ \A i \in 1..Len(before) : before[i][field] # key => after[i] = before[i]
    /\ \A i \in (Len(before) + 1)..Len(after) : after[i][field] = key

\* C34: an attempt on an exercise or a lesson changes the record of that
\* exercise or lesson and the statistics only: every other speaking,
\* listening and lesson record, the skill records, the daily records and the
\* weekly goals are as before; updateSkillProgress changes the record of the
\* named skill only.
C34_FrameOfAttempt ==
    /\ last.op \in {"speaking", "listening", "lesson"} =>
        /\ progress.skillProgress = last.before.skillProgress
        /\ progress.dailyProgress = last.before.dailyProgress
        /\ progress.weeklyGoals = last.before.weeklyGoals
        /\ progress.vocabularyProgress = last.before.vocabularyProgress
        /\ IF last.op = "speaking"
           THEN OthersKept(last.before.speakingProgress, progress.speakingProgress,
                           "exerciseId", last.id)
           ELSE progress.speakingProgress = last.before.speakingProgress
        /\ IF last.op = "listening"
           THEN OthersKept(last.before.listeningProgress, progress.listeningProgress,
                           "exerciseId", last.id)
           ELSE progress.listeningProgress = last.before.listeningProgress
        /\ IF last.op = "lesson"
           THEN OthersKept(last.before.lessonProgress, progress.lessonProgress,
                           "lessonId", last.id)
           ELSE progress.lessonProgress = last.before.lessonProgress
    /\ last.op = "skill" =>
        /\ OthersKept(last.before.skillProgress, progress.skillProgress,
                      "skill", last.id)
        /\ [progress EXCEPT !.skillProgress = last.before.skillProgress] = last.before

\* C34 witness: a skill update has changed the record of its skill in a
\* ledger that holds a record of another skill, which is as it was.
C34_Witness_OtherSkillKept ==
    /\ last.op = "skill"
    /\ Len(last.before.skillProgress) = 2
    /\ Len(progress.skillProgress) = 2
    /\ \E i, j \in 1..2 :
        /\ progress.skillProgress[i].skill = last.id
        /\ progress.skillProgress[i] # last.before.skillProgress[i]
        /\ progress.skillProgress[j].skill # last.id

\* the count of the 'lesson' entry of a daily record, 0 without one
LessonEntryCount(dp) ==
    IF FindActivity(dp.activitiesCompleted, "lesson") = 0 THEN 0
    ELSE dp.activitiesCompleted[FindActivity(dp.activitiesCompleted, "lesson")].count

\* C35: every daily record has xpEarned equal to the sum of the xp of its
\* activitiesCompleted entries, at most one entry per activity type, and
\* lessonsCompleted equal to the count of its 'lesson' entry (0 without one).
C35_DailyRecordConsistent ==
    \A d \in 1..Len(progress.dailyProgress) :
        LET dp == progress.dailyProgress[d]
        IN  /\ dp.xpEarned = Sum(Field(dp.activitiesCompleted, "xp"))
            /\ \A i, j \in 1..Len(dp.activitiesCompleted) :
                  dp.activitiesCompleted[i].type = dp.activitiesCompleted[j].type
                      => i = j
            /\ dp.lessonsCompleted = LessonEntryCount(dp)

\* C36: in every reachable state weeklyGoals.weekStartDate falls on a Sunday
\* and is not later than the current time, and immediately after every
\* updateWeeklyProgress call fewer than 7 full days separate weekStartDate
\* from the time of the call.
C36_WeekStartIsRecentSunday ==
    /\ DayOfWeek(GoalsNow.weekStartDate) = 0
    /\ GoalsNow.weekStartDate <= now
    /\ DailyCall => Floor(now - GoalsNow.weekStartDate, DayHours) < 7

\* C36 witness: a call on a day that is not a Sunday, 7 days or more after an
\* anchor that kept a time of day, has moved the anchor to an earlier day of
\* the week of the call.
C36_Witness_ResetMidweek ==
    /\ DailyCall
    /\ Elapsed >= WeekHours
    /\ GoalsBefore.weekStartDate % DayHours # 0
    /\ DayOfWeek(now) # 0
    /\ GoalsNow.weekStartDate < Midnight(now)
    /\ GoalsNow.weekStartDate > GoalsBefore.weekStartDate

\* C37: an updateWeeklyProgress call that triggers a reset still counts the
\* triggering activity: immediately after it currentWeekXP equals the call's
\* xp, currentWeekTime equals the call's timeSpent, and currentWeekLessons is
\* 1 if the activity type is 'lesson' and 0 otherwise.
C37_ResetCountsTrigger ==
    (DailyCall /\ Elapsed >= WeekHours) =>
        /\ GoalsNow.currentWeekXP = last.xp
        /\ GoalsNow.currentWeekTime = last.timeSpent
        /\ GoalsNow.currentWeekLessons = LessonCount

\* C37 witness: a lesson with xp and time above zero has reset a week whose
\* three counters were above zero, and is the one lesson of the new week.
C37_Witness_LessonResetsWeek ==
    /\ DailyCall
    /\ Elapsed >= WeekHours
    /\ last.activityType = "lesson"
    /\ last.xp > 0
    /\ last.timeSpent > 0
    /\ GoalsBefore.currentWeekXP > 0
    /\ GoalsBefore.currentWeekTime > 0
    /\ GoalsBefore.currentWeekLessons > 0
    /\ GoalsNow.currentWeekLessons = 1

\* the daily records dated on or after the calendar day of the week's anchor
CurrentWeekRecords(doc) ==
    LET inWeek(dp) == dp.date >= Midnight(doc.weeklyGoals.weekStartDate)
    IN  SelectSeq(doc.dailyProgress, inWeek)

\* C38: after any sequence of updateDailyProgress calls weeklyGoals.currentWeekXP
\* equals the sum of xpEarned over the daily records whose date is on or after
\* the calendar day of weeklyGoals.weekStartDate.
C38_WeekAgreesWithDays ==
    GoalsNow.currentWeekXP = Sum(Field(CurrentWeekRecords(progress), "xpEarned"))

\* one of the two request slots has never been used, so that no two
\* submissions have been in flight at the same time
OneAtATime == \E r \in Requests : req[r].pc = "idle"

\* the sum of xp over the skill records of a ledger and the sum of xpEarned
\* over its daily records
TotalSkillXp(doc) == Sum(Field(doc.skillProgress, "xp"))
TotalDailyXp(doc) == Sum(Field(doc.dailyProgress, "xpEarned"))

\* C39: for a ledger mutated only through non-overlapping speaking and
\* listening practice submissions, in every persisted state the sum of xp over
\* all skill records equals the sum of xpEarned over all daily records.
C39_SkillXpEqualsDailyXp ==
    OneAtATime =>
        \A i \in 1..Len(store) :
            TotalSkillXp(store[i].doc) = TotalDailyXp(store[i].doc)

====
